---- MODULE Spec2Model ----
(***************************************************************************)
(* Flow controllers of futureworld_undrstnd: the Foresight flow            *)
(* (Examples/Foresight_example/main.py), the DD flow                       *)
(* (Examples/DD_example/main.py) and ScanSourcesFlow                       *)
(* (scan_sources/main.py), with the checkpoint files they read and write.  *)
(*                                                                         *)
(* A behaviour runs one of the three programs (app) through any sequence   *)
(* of its entry points.  Crew calls and file writes are the environment:   *)
(* a crew call returns a value or raises, a file write succeeds or raises. *)
(* Steps are chained the way the decorators of the source say: a           *)
(* @router/@listen(method) step runs after that method, a @listen("label") *)
(* step runs when a router returns the label or emit("label") is called.   *)
(***************************************************************************)
EXTENDS Integers, Sequences, FiniteSets, TLC

\* ---------------------------------------------------------------- bounds
\* longest plan (number of sections) a crew or a reviewer produces
MaxSections == 2
\* longest keyword list of a research plan
MaxItems == 2
\* entry points called in one behaviour
MaxCalls == 2
MaxRuns == 3
MaxMessages == 3

\* ---------------------------------------------------------------- values
Apps == {"foresight", "dd", "scan", "hitl", "cli", "tavily", "pdf", "perplexity"}

\* Strings the code edits character by character are sequences of tokens;
\* " " is the space.
SubtitleAB == <<"A", " ", "B">>
SubtitleA_B == <<"A", "_", "B">>
SubtitleC == <<"C">>
SubtitleBasic == <<"Basic", " ", "Plan", " ", "Section">>

\* str.replace(' ', '_')
RECURSIVE replace_space(_)
replace_space(s) ==
    IF s = <<>> THEN <<>>
    ELSE <<(IF Head(s) = " " THEN "_" ELSE Head(s))>> \o replace_space(Tail(s))

\* f"{section_number}": decimal formatting of a small int
Digits == <<"0", "1", "2", "3", "4", "5", "6", "7", "8", "9">>
IntToStr(n) == Digits[n + 1]

\* Foresight Section (section_number, subtitle); the other fields never
\* reach the flow's control.
ForesightSections ==
    { [section_number |-> 1, subtitle |-> SubtitleAB],
      [section_number |-> 0, subtitle |-> SubtitleA_B] }

\* DD Section: subtitle only
DDSections ==
    { [subtitle |-> SubtitleAB], [subtitle |-> SubtitleC] }

SeqsUpTo(S, n) == UNION { [1..k -> S] : k \in 0..n }

\* plans a Foresight plan crew or reviewer can produce
ForesightPlans == SeqsUpTo(ForesightSections, MaxSections)
\* plans a DD plan crew can produce
DDPlans == SeqsUpTo(DDSections, MaxSections)

\* the fallback plan of create_new_plan
BasicPlan == << [section_number |-> 1, subtitle |-> SubtitleBasic] >>

\* what a research crew's .raw can be
Results == {"r1", "r2"}

\* ---------------------------------------------------------------- files
\* A file is absent, or holds JSON text of a plan (possibly with fields the
\* model ignores), or holds text that is no plan.
Missing == [kind |-> "missing"]
BadText == [kind |-> "bad"]
JsonText(p, x) == [kind |-> "json", sections |-> p, extra |-> x]

Exists(f) == f.kind # "missing"

\* Plan.model_validate_json accepts exactly the JSON text of a plan
CanValidate(text) == text.kind = "json"
\* ... and returns the plan, dropping what the model ignores
model_validate_json(text) == text.sections
\* plan.model_dump_json(): the declared fields only
model_dump_json(p) == JsonText(p, FALSE)

\* status.json: what _update_status writes
NoStatus == [status |-> "none", flow_state |-> "none", progress |-> -1]
StatusData(s, fs, p) == [status |-> s, flow_state |-> fs, progress |-> p]
\* _update_status: a failed write is printed and swallowed
update_status(cur, s, fs, p, ok) == IF ok THEN StatusData(s, fs, p) ELSE cur

\* file names, as paths of tokens
PLAN_FILE == <<"saved_plan.json">>
PLAN_REVIEW_FILE == <<"plan_for_review.json">>
PLAN_APPROVED_FILE == <<"plan_approved.json">>
\* the report of outputs/ (Foresight_{sector}.md, {company_short}_{topic}.md)
REPORT_FILE == <<"outputs", "report.md">>

\* section file names
ForesightSectionNumber(section, i) ==
    IF section.section_number = 0 THEN i ELSE section.section_number
ForesightSectionFile(section, i) ==
    <<IntToStr(ForesightSectionNumber(section, i)), "_">>
        \o replace_space(section.subtitle) \o <<".md">>
DDSectionFile(section) == replace_space(section.subtitle) \o <<".md">>

\* open(path, "w").write(text) on the directory of section files
WriteFile(dir, path, text) ==
    [f \in (DOMAIN dir) \cup {path} |-> IF f = path THEN text ELSE dir[f]]

\* ---------------------------------------------------------------- state
VARIABLES
    app,            \* the program this behaviour runs
    op,             \* the entry point being executed ("none" when idle)
    arg,            \* its argument (edited_plan_json of update_plan_from_user_edits)
    pc,             \* the flow step about to run, "idle" between calls
    outcome,        \* how the last call ended
    planApproved,   \* plan_approved.json
    planReview,     \* plan_for_review.json
    savedPlan,      \* saved_plan.json
    statusFile,     \* status.json
    sectionFiles,   \* outputs/sections/*: name -> content
    reportFile,     \* the final report of outputs/: absent or the sections written
    plan,           \* the plan the running step holds
    ret,            \* the value the last step returned
    idx,            \* loop index of the research loop
    final_content,  \* the list the research loop builds
    state,          \* ScanSourcesState
    planCrewCalls,  \* history: plan crew kickoffs of this call
    researchCalls,  \* history: research crew kickoffs of this call, per item
    failed,         \* history: items whose research crew call raised in this call
    trace,          \* history: steps of this call, in order
    startFiles,     \* history: the checkpoint files as they were when this call began
    written,        \* history: files this call has written
    ioFailed,       \* history: a file write of this call raised
    statusOk,       \* whether status.json can be written during this call
    calls,          \* entry points called so far
    crewRaised,     \* history: a crew call of this call raised
    requestFile,    \* interaction_data/human_input_request.json
    responseFile,   \* interaction_data/human_input_response.json
    ui,             \* the Streamlit process: where it is and the task it answers
    submitted,      \* history: tasks for which the reviewer's response was saved
    flowStatus,     \* flow_status.json of the human input handshake
    tool,           \* a tool object and the files it keeps (the tool programs)
    statusLog       \* history: the progress values written to status.json in this call

filevars == <<planApproved, planReview, savedPlan, statusFile, sectionFiles, reportFile>>
vars == <<app, op, arg, pc, outcome, planApproved, planReview, savedPlan, statusFile,
          sectionFiles, reportFile, plan, ret, idx, final_content, state,
          planCrewCalls, researchCalls, failed, trace, startFiles, written,
          ioFailed, statusOk, calls, crewRaised, requestFile, responseFile, ui, submitted,
          flowStatus, tool, statusLog>>
toolvars == <<tool>>
logvars == <<statusLog>>
hitlvars == <<requestFile, responseFile, ui, submitted, flowStatus>>

NoArg == BadText
NoTool == [kind |-> "none"]
NoRet == [type |-> "None"]
Str(s) == [type |-> "str", value |-> s]
PlanRet == [type |-> "Plan"]
ListRet == [type |-> "list"]

\* ScanSourcesState()
NoPlan == [form |-> "none", keywords |-> <<>>]
ScanSourcesState ==
    [ error_message |-> "None", research_plan |-> NoPlan, validated_plan |-> NoPlan,
      web_findings |-> <<>>, document_findings |-> <<>>,
      synthesized_forces |-> "empty", final_forces |-> "empty",
      markdown_report |-> "None", final_output |-> "None" ]

CallsOf(k) == IF k \in DOMAIN researchCalls THEN researchCalls[k] ELSE 0
CountCall(k) ==
    [x \in (DOMAIN researchCalls) \cup {k} |-> IF x = k THEN CallsOf(k) + 1 ELSE researchCalls[x]]

Init ==
    /\ app \in Apps
    /\ op = "none" /\ arg = NoArg /\ pc = "idle" /\ outcome = "none"
    /\ planApproved = Missing /\ planReview = Missing /\ savedPlan = Missing
    /\ statusFile = NoStatus
    /\ sectionFiles = <<>>
    /\ reportFile = Missing
    /\ plan = <<>> /\ ret = NoRet /\ idx = 0 /\ final_content = <<>>
    /\ state = ScanSourcesState
    /\ planCrewCalls = 0 /\ researchCalls = <<>> /\ failed = {} /\ trace = <<>>
    /\ startFiles = [approved |-> Missing, review |-> Missing, saved |-> Missing]
    /\ written = {} /\ ioFailed = FALSE /\ statusOk = TRUE /\ calls = 0 /\ crewRaised = FALSE
    /\ requestFile = Missing /\ responseFile = Missing
    /\ ui = [pc |-> "idle", task |-> 0] /\ submitted = {}
    /\ flowStatus = [status |-> "unknown", current_step |-> 0]
    /\ tool = NoTool
    /\ statusLog = <<>>

\* ---------------------------------------------------------------- chaining
\* a faulty variant of ForesightListeners: save_to_markdown listens to nothing
ForesightListeners_noReport ==
    { [method |-> "handle_plan_flow",  kind |-> "method", on |-> "develop_plan"],
      [method |-> "create_new_plan",   kind |-> "label",  on |-> "create_new_plan"],
      [method |-> "wait_for_approval", kind |-> "label",  on |-> "awaiting_review"],
      [method |-> "research_sections", kind |-> "label",  on |-> "plan_approved"] }

\* a faulty variant of ForesightListeners: save_to_markdown also listens to
\* "plan_approved", next to research_sections
ForesightListeners_twoOnApproved ==
    { [method |-> "handle_plan_flow",  kind |-> "method", on |-> "develop_plan"],
      [method |-> "create_new_plan",   kind |-> "label",  on |-> "create_new_plan"],
      [method |-> "wait_for_approval", kind |-> "label",  on |-> "awaiting_review"],
      [method |-> "research_sections", kind |-> "label",  on |-> "plan_approved"],
      [method |-> "save_to_markdown",  kind |-> "label",  on |-> "plan_approved"],
      [method |-> "save_to_markdown",  kind |-> "method", on |-> "research_sections"] }

\* The decorators: which step runs on which trigger.
ForesightListeners ==
    { [method |-> "handle_plan_flow",  kind |-> "method", on |-> "develop_plan"],
      [method |-> "create_new_plan",   kind |-> "label",  on |-> "create_new_plan"],
      [method |-> "wait_for_approval", kind |-> "label",  on |-> "awaiting_review"],
      [method |-> "research_sections", kind |-> "label",  on |-> "plan_approved"],
      [method |-> "save_to_markdown",  kind |-> "method", on |-> "research_sections"] }

DDListeners ==
    { [method |-> "handle_plan", kind |-> "method", on |-> "develop_content_plan"],
      [method |-> "research_company_overview_content", kind |-> "method", on |-> "handle_plan"],
      [method |-> "save_to_markdown", kind |-> "method",
       on |-> "research_company_overview_content"] }

ScanListeners ==
    { [method |-> "review_research_plan", kind |-> "method", on |-> "prepare_research_plan"],
      [method |-> "scan_sources",        kind |-> "label", on |-> "research"],
      [method |-> "synthesize_findings", kind |-> "label", on |-> "synthesize"],
      [method |-> "review_findings",     kind |-> "label", on |-> "review"],
      [method |-> "generate_outputs",    kind |-> "label", on |-> "packaging"],
      [method |-> "finish_success",      kind |-> "label", on |-> "complete"],
      [method |-> "finish_error",        kind |-> "label", on |-> "error"] }

Listeners ==
    IF app = "foresight" THEN ForesightListeners
    ELSE IF app = "dd" THEN DDListeners ELSE ScanListeners

\* the step a trigger starts, "end" when nothing listens to it
Triggered(kind, on) ==
    LET S == { l \in Listeners : l.kind = kind /\ l.on = on }
    IN  IF S = {} THEN "end" ELSE (CHOOSE l \in S : TRUE).method

\* the call returns to its caller
Return ==
    /\ pc' = "idle"
    /\ outcome' = IF op = "update" THEN "True" ELSE "returned"

\* a faulty variant of Raise: update_plan_from_user_edits lets the exception through
Raise_uncaught ==
    /\ pc' = "idle"
    /\ outcome' = "raised"

\* an exception leaves the flow: update_plan_from_user_edits catches it and
\* returns False, the other entry points let it through
Raise ==
    /\ pc' = "idle"
    /\ outcome' = IF op = "update" THEN "False" ELSE "raised"

Goto(m) ==
    IF m = "end" THEN Return ELSE pc' = m /\ outcome' = outcome

\* a step (not a router) has returned: the steps listening to it run
AfterMethod(m) == Goto(Triggered("method", m))
\* a router has returned r, or emit(r) was called
AfterLabel(r) == Goto(Triggered("label", r))

\* an entry point is called: the history of the call starts afresh
StartOp(o, a) ==
    /\ pc = "idle"
    /\ op' = o /\ arg' = a
    /\ planCrewCalls' = 0 /\ researchCalls' = <<>> /\ failed' = {}
    /\ startFiles' = [approved |-> planApproved, review |-> planReview, saved |-> savedPlan]
    /\ crewRaised' = FALSE
    /\ plan' = <<>> /\ ret' = NoRet /\ idx' = 0 /\ final_content' = <<>>
    /\ state' = ScanSourcesState
    /\ app' = app
    /\ calls < MaxCalls /\ calls' = calls + 1
    /\ statusOk' \in (IF app = "foresight" THEN BOOLEAN ELSE {TRUE})

\* ---------------------------------------------------------------- Foresight flow
\* what PlanCrew().crew().kickoff() can do: raise, return a pydantic plan,
\* or return an output without one
ForesightPlanCrewOutputs ==
    { [kind |-> "raise", plan |-> <<>>], [kind |-> "raw", plan |-> <<>>] }
        \cup { [kind |-> "pydantic", plan |-> p] : p \in ForesightPlans }

\* what the reviewer can submit as edited_plan_json
EditedPlanJson ==
    { BadText } \cup { JsonText(p, x) : p \in ForesightPlans, x \in BOOLEAN }

\* what a research crew kickoff can do: raise or return .raw
ResearchOutputs == Results \cup {"raise"}

\* self._update_status(status, ..., flow_state, progress) during this call
Status(s, fs, p) == update_status(statusFile, s, fs, p, statusOk)

\* the log of this call after _update_status calls with these progress
\* values: a call whose write fails writes nothing
Logged(values) == IF statusOk THEN statusLog \o values ELSE statusLog

\* kickoff(): ForesightFlow().kickoff() starts the @start step
kickoff ==
    /\ UNCHANGED <<hitlvars, toolvars>>
    /\ statusLog' = <<>>
    /\ app = "foresight"
    /\ StartOp("kickoff", NoArg)
    /\ pc' = "develop_plan" /\ outcome' = "running"
    /\ trace' = <<>> /\ written' = {} /\ ioFailed' = FALSE
    /\ UNCHANGED filevars

\* a faulty variant of develop_plan_result: the review file is checked first
develop_plan_result_reviewFirst(approved, review) ==
    IF Exists(review) THEN "awaiting_review"
    ELSE IF Exists(approved) THEN "Plan"
    ELSE "create_new_plan"

\* the result of develop_plan's checks: the approved file first, then the
\* review file
develop_plan_result(approved, review) ==
    IF Exists(approved) THEN "Plan"
    ELSE IF Exists(review) THEN "awaiting_review"
    ELSE "create_new_plan"

develop_plan ==
    /\ UNCHANGED <<hitlvars, toolvars>>
    /\ statusLog' = Logged(IF develop_plan_result(planApproved, planReview) = "awaiting_review"
                            THEN <<5, 20>> ELSE <<5>>)
    /\ app = "foresight" /\ pc = "develop_plan"
    /\ trace' = Append(trace, "develop_plan")
    /\ LET r == develop_plan_result(planApproved, planReview)
       IN  /\ statusFile' = IF r = "awaiting_review"
                            THEN Status("awaiting_review", "awaiting_review", 20)
                            ELSE Status("initializing", "develop_plan", 5)
           /\ IF r = "Plan"
              THEN IF CanValidate(planApproved)
                   THEN /\ plan' = model_validate_json(planApproved)
                        /\ ret' = PlanRet
                        /\ AfterMethod("develop_plan")
                   ELSE /\ UNCHANGED <<plan, ret>>
                        /\ Raise
              ELSE /\ plan' = plan
                   /\ ret' = Str(r)
                   /\ AfterMethod("develop_plan")
    /\ UNCHANGED <<app, op, arg, planApproved, planReview, savedPlan, sectionFiles,
                   reportFile, idx, final_content, state, planCrewCalls, researchCalls,
                   failed, startFiles, written, ioFailed, statusOk, calls, crewRaised>>

\* a faulty variant of handle_plan_flow_route: a missing plan is routed to the pause
handle_plan_flow_route_noCreate(result) ==
    IF result.type = "Plan" THEN "plan_approved"
    ELSE IF result.type = "str" THEN "awaiting_review"
    ELSE "None"

\* the label the router returns for develop_plan's result ("None": no route)
handle_plan_flow_route(result) ==
    IF result.type = "Plan" THEN "plan_approved"
    ELSE IF result.type = "str" /\ result.value = "awaiting_review" THEN "awaiting_review"
    ELSE IF result.type = "str" /\ result.value = "create_new_plan" THEN "create_new_plan"
    ELSE "None"

handle_plan_flow ==
    /\ UNCHANGED <<hitlvars, toolvars>>
    /\ app = "foresight" /\ pc = "handle_plan_flow"
    /\ trace' = Append(trace, "handle_plan_flow")
    /\ LET route == handle_plan_flow_route(ret)
       IN  /\ statusFile' = IF route = "plan_approved"
                            THEN Status("plan_approved", "plan_approved", 30)
                            ELSE statusFile
           /\ statusLog' = Logged(IF route = "plan_approved" THEN <<30>> ELSE <<>>)
           /\ ret' = Str(route)
           /\ IF route = "None" THEN Return ELSE AfterLabel(route)
    /\ UNCHANGED <<app, op, arg, planApproved, planReview, savedPlan, sectionFiles,
                   reportFile, plan, idx, final_content, state, planCrewCalls,
                   researchCalls, failed, startFiles, written, ioFailed, statusOk, calls,
                   crewRaised>>

\* the plan create_new_plan keeps: the crew's pydantic output, else the
\* basic one-section plan
plan_of_output(out) == IF out.kind = "pydantic" THEN out.plan ELSE BasicPlan

\* the progress values create_new_plan writes, in order: 10 unless
\* status.json already says create_new_plan, 20 once the review file is
\* written
create_progress(flow_state, stop) ==
    (IF flow_state # "create_new_plan" THEN <<10>> ELSE <<>>)
    \o (IF stop \in {"markdown", "none"} THEN <<20>> ELSE <<>>)

create_new_plan ==
    /\ UNCHANGED <<hitlvars, toolvars>>
    /\ app = "foresight" /\ pc = "create_new_plan"
    /\ trace' = Append(trace, "create_new_plan")
    /\ planCrewCalls' = planCrewCalls + 1
    /\ \E out \in ForesightPlanCrewOutputs, okW, okMd \in BOOLEAN :
        LET p  == plan_of_output(out)
            \* where the body stops: the crew raised, the review file could not
            \* be opened, the plan markdown could not be written, or nowhere
            stop == IF out.kind = "raise" THEN "crew"
                    ELSE IF ~okW THEN "review"
                    ELSE IF ~okMd THEN "markdown" ELSE "none"
        IN  /\ (out.kind = "raise" => okW /\ okMd)
            /\ (~okW => okMd)
            /\ crewRaised' = (crewRaised \/ stop = "crew")
            /\ ioFailed' = (ioFailed \/ stop \in {"review", "markdown"})
            /\ planReview' = IF stop \in {"markdown", "none"}
                             THEN model_dump_json(p) ELSE planReview
            /\ written' = IF stop \in {"markdown", "none"}
                          THEN written \cup {PLAN_REVIEW_FILE} ELSE written
            /\ statusFile' =
                 IF stop \in {"markdown", "none"}
                 THEN Status("awaiting_review", "awaiting_review", 20)
                 ELSE IF statusFile.flow_state # "create_new_plan"
                 THEN Status("planning", "create_new_plan", 10)
                 ELSE statusFile
            /\ statusLog' = Logged(create_progress(statusFile.flow_state, stop))
            /\ plan' = IF stop = "crew" THEN plan ELSE p
            /\ ret' = NoRet
            \* self.emit("awaiting_review")
            /\ IF stop = "none" THEN AfterLabel("awaiting_review") ELSE Raise
    /\ UNCHANGED <<app, op, arg, planApproved, savedPlan, sectionFiles, reportFile,
                   idx, final_content, state, researchCalls, failed, startFiles,
                   statusOk, calls>>

wait_for_approval ==
    /\ UNCHANGED <<hitlvars, toolvars>>
    /\ statusLog' = Logged(<<25>>)
    /\ app = "foresight" /\ pc = "wait_for_approval"
    /\ trace' = Append(trace, "wait_for_approval")
    /\ statusFile' = Status("awaiting_review", "wait_for_approval", 25)
    /\ ret' = NoRet
    /\ AfterMethod("wait_for_approval")
    /\ UNCHANGED <<app, op, arg, planApproved, planReview, savedPlan, sectionFiles,
                   reportFile, plan, idx, final_content, state, planCrewCalls,
                   researchCalls, failed, startFiles, written, ioFailed, statusOk, calls,
                   crewRaised>>

\* a faulty variant of ApprovedPlanText: the review file when no approved file is there
ApprovedPlanText_orReview == IF Exists(planApproved) THEN planApproved ELSE planReview

\* the file research_sections reads its plan from: PLAN_APPROVED_FILE
ApprovedPlanText == planApproved

\* research_sections up to its loop: the approved plan is read from the file
research_sections ==
    /\ UNCHANGED <<hitlvars, toolvars>>
    /\ statusLog' = Logged(IF Exists(ApprovedPlanText) /\ CanValidate(ApprovedPlanText)
                            THEN <<40>> ELSE <<>>)
    /\ app = "foresight" /\ pc = "research_sections"
    /\ trace' = Append(trace, "research_sections")
    /\ IF Exists(ApprovedPlanText) /\ CanValidate(ApprovedPlanText)
       THEN /\ plan' = model_validate_json(ApprovedPlanText)
            /\ statusFile' = Status("researching", "research_sections", 40)
            /\ idx' = 1 /\ final_content' = <<>>
            /\ pc' = "research_sections_loop" /\ outcome' = outcome
       ELSE \* open() or model_validate_json raises
            /\ UNCHANGED <<plan, statusFile, idx, final_content>>
            /\ Raise
    /\ ret' = NoRet
    /\ UNCHANGED <<app, op, arg, planApproved, planReview, savedPlan, sectionFiles,
                   reportFile, state, planCrewCalls, researchCalls, failed, startFiles,
                   written, ioFailed, statusOk, calls, crewRaised>>

\* a faulty variant of ForesightNextIndex: the loop ends at a section whose crew call raised
ForesightNextIndex_stop(i, out) == IF out = "raise" THEN Len(plan) + 1 ELSE i + 1

\* a faulty variant of ForesightNextIndex: a section whose crew call raised is tried again
ForesightNextIndex_retry(i, out) == IF out = "raise" THEN i ELSE i + 1

\* the index the Foresight loop goes to after section i, whatever happened
\* to it (continue)
ForesightNextIndex(i, out) == i + 1

\* a faulty variant of NeedsResearch: the crew is asked whether the file is there or not
NeedsResearch_always(dir, section_path) == section_path \in DOMAIN dir \/ section_path \notin DOMAIN dir

\* whether the loop asks the research crew for a section: only when its
\* file is not there
NeedsResearch(dir, section_path) == section_path \notin DOMAIN dir

\* one iteration of the loop of research_sections
research_sections_loop ==
    /\ UNCHANGED <<hitlvars, toolvars>>
    /\ statusLog' = statusLog
    /\ app = "foresight" /\ pc = "research_sections_loop" /\ idx <= Len(plan)
    /\ LET section == plan[idx]
           section_path == ForesightSectionFile(section, idx)
       IN  IF ~NeedsResearch(sectionFiles, section_path)
           THEN /\ final_content' = Append(final_content, sectionFiles[section_path])
                /\ idx' = idx + 1
                /\ UNCHANGED <<sectionFiles, researchCalls, failed, crewRaised, ioFailed,
                               written>>
           ELSE \E out \in ResearchOutputs, okW \in BOOLEAN :
                /\ (out = "raise" => okW)
                /\ researchCalls' = CountCall(<<idx, "section">>)
                /\ idx' = ForesightNextIndex(idx, out)
                /\ IF out = "raise"
                   THEN /\ failed' = failed \cup {idx}
                        /\ crewRaised' = TRUE
                        /\ UNCHANGED <<final_content, sectionFiles, ioFailed, written>>
                   ELSE /\ final_content' = Append(final_content, out)
                        /\ sectionFiles' = IF okW THEN WriteFile(sectionFiles, section_path, out)
                                           ELSE sectionFiles
                        /\ written' = IF okW THEN written \cup {section_path} ELSE written
                        /\ ioFailed' = (ioFailed \/ ~okW)
                        /\ UNCHANGED <<failed, crewRaised>>
    /\ UNCHANGED <<app, op, arg, pc, outcome, planApproved, planReview, savedPlan,
                   statusFile, reportFile, plan, ret, state, planCrewCalls, trace,
                   startFiles, statusOk, calls>>

\* research_sections after its loop
research_sections_return ==
    /\ UNCHANGED <<hitlvars, toolvars>>
    /\ statusLog' = Logged(<<80>>)
    /\ app = "foresight" /\ pc = "research_sections_loop" /\ idx > Len(plan)
    /\ statusFile' = Status("research_complete", "research_complete", 80)
    /\ ret' = ListRet
    /\ AfterMethod("research_sections")
    /\ UNCHANGED <<app, op, arg, planApproved, planReview, savedPlan, sectionFiles,
                   reportFile, plan, idx, final_content, state, planCrewCalls,
                   researchCalls, failed, trace, startFiles, written, ioFailed, statusOk,
                   calls, crewRaised>>

Report(content) == [kind |-> "report", content |-> content]

\* a faulty variant of save_progress: 'complete' is written before the report is
save_progress_early(okW) == <<90, 100>>

\* the progress values save_to_markdown writes, in order: 90 before the
\* report is opened, 100 after it is written
save_progress(okW) == IF okW THEN <<90, 100>> ELSE <<90>>

save_to_markdown ==
    /\ UNCHANGED <<hitlvars, toolvars>>
    /\ app = "foresight" /\ pc = "save_to_markdown"
    /\ trace' = Append(trace, "save_to_markdown")
    /\ \E okW \in BOOLEAN :
        /\ statusLog' = Logged(save_progress(okW))
        /\ IF okW
           THEN /\ reportFile' = Report(final_content)
                /\ written' = written \cup {REPORT_FILE}
                /\ statusFile' = Status("complete", "complete", 100)
                /\ ioFailed' = ioFailed
                /\ AfterMethod("save_to_markdown")
           ELSE /\ UNCHANGED <<reportFile, written>>
                /\ statusFile' = Status("finalizing", "save_to_markdown", 90)
                /\ ioFailed' = TRUE
                /\ Raise
    /\ ret' = NoRet
    /\ UNCHANGED <<app, op, arg, planApproved, planReview, savedPlan, sectionFiles,
                   plan, idx, final_content, state, planCrewCalls, researchCalls, failed,
                   startFiles, statusOk, calls, crewRaised>>

\* where update_plan_from_user_edits stops before it resumes the flow: at
\* the validation, at the write of the approved file, at the write of the
\* review file, or nowhere
update_stop(json, okA, okR) ==
    IF ~CanValidate(json) THEN "validate"
    ELSE IF ~okA THEN "approved"
    ELSE IF ~okR THEN "review" ELSE "none"

\* a faulty variant of review_copy: the review file is left as it is
review_copy_unchanged(edited_plan) == planReview

\* what update_plan_from_user_edits writes to PLAN_REVIEW_FILE "to match"
review_copy(edited_plan) == model_dump_json(edited_plan)

\* get_plan_for_review(): the text of PLAN_REVIEW_FILE, or None
get_plan_for_review == IF Exists(planReview) THEN planReview ELSE Missing

\* update_plan_from_user_edits(edited_plan_json) up to its call of
\* resume_flow_with_approved_plan; any exception is caught and False returned
update_plan_from_user_edits ==
    /\ UNCHANGED <<hitlvars, toolvars>>
    /\ app = "foresight"
    /\ \E json \in EditedPlanJson, okA, okR \in BOOLEAN :
        LET edited_plan == model_validate_json(json)
            stop == update_stop(json, okA, okR)
        IN  /\ (~CanValidate(json) => okA /\ okR)
            /\ (~okA => okR)
            /\ StartOp("update", json)
            /\ trace' = <<"update_plan_from_user_edits">>
            /\ planApproved' = IF stop \in {"review", "none"}
                               THEN model_dump_json(edited_plan) ELSE planApproved
            /\ planReview' = IF stop = "none" THEN review_copy(edited_plan) ELSE planReview
            /\ written' = IF stop = "none" THEN {PLAN_APPROVED_FILE, PLAN_REVIEW_FILE}
                          ELSE IF stop = "review" THEN {PLAN_APPROVED_FILE} ELSE {}
            /\ ioFailed' = (stop \in {"approved", "review"})
            /\ statusFile' = IF stop = "none"
                             THEN update_status(statusFile, "plan_approved", "plan_approved",
                                                30, statusOk')
                             ELSE statusFile
            /\ statusLog' = IF stop = "none" /\ statusOk' THEN <<30>> ELSE <<>>
            /\ IF stop = "none"
               THEN pc' = "resume_flow_with_approved_plan" /\ outcome' = "running"
               ELSE pc' = "idle" /\ outcome' = "False"
    /\ UNCHANGED <<savedPlan, sectionFiles, reportFile>>

\* resume_flow_with_approved_plan() called from outside
call_resume_flow_with_approved_plan ==
    /\ UNCHANGED <<hitlvars, toolvars>>
    /\ statusLog' = <<>>
    /\ app = "foresight"
    /\ StartOp("resume", NoArg)
    /\ pc' = "resume_flow_with_approved_plan" /\ outcome' = "running"
    /\ trace' = <<>> /\ written' = {} /\ ioFailed' = FALSE
    /\ UNCHANGED filevars

\* the body of resume_flow_with_approved_plan: a new ForesightFlow emits
\* "plan_approved"
resume_flow_with_approved_plan ==
    /\ UNCHANGED <<hitlvars, toolvars>>
    /\ statusLog' = Logged(<<30>>)
    /\ app = "foresight" /\ pc = "resume_flow_with_approved_plan"
    /\ trace' = Append(trace, "resume_flow_with_approved_plan")
    /\ statusFile' = Status("plan_approved", "plan_approved", 30)
    /\ ret' = NoRet
    /\ AfterLabel("plan_approved")
    /\ UNCHANGED <<app, op, arg, planApproved, planReview, savedPlan, sectionFiles,
                   reportFile, plan, idx, final_content, state, planCrewCalls,
                   researchCalls, failed, startFiles, written, ioFailed, statusOk, calls,
                   crewRaised>>

ForesightNext ==
    \/ kickoff
    \/ develop_plan
    \/ handle_plan_flow
    \/ create_new_plan
    \/ wait_for_approval
    \/ research_sections
    \/ research_sections_loop
    \/ research_sections_return
    \/ save_to_markdown
    \/ update_plan_from_user_edits
    \/ call_resume_flow_with_approved_plan
    \/ resume_flow_with_approved_plan


\* ---------------------------------------------------------------- DD flow
\* what PlanCrew().crew().kickoff(...).pydantic can be: the call raises, or
\* the output carries a plan, or it carries none
DDPlanCrewOutputs ==
    { [kind |-> "raise", plan |-> <<>>], [kind |-> "none", plan |-> <<>>] }
        \cup { [kind |-> "pydantic", plan |-> p] : p \in DDPlans }

\* kickoff(): CompanyProfilesFlow().kickoff()
dd_kickoff ==
    /\ UNCHANGED <<hitlvars, toolvars, logvars>>
    /\ app = "dd"
    /\ StartOp("kickoff", NoArg)
    /\ pc' = "develop_content_plan" /\ outcome' = "running"
    /\ trace' = <<>> /\ written' = {} /\ ioFailed' = FALSE
    /\ UNCHANGED filevars

develop_content_plan ==
    /\ UNCHANGED <<hitlvars, toolvars, logvars>>
    /\ app = "dd" /\ pc = "develop_content_plan"
    /\ trace' = Append(trace, "develop_content_plan")
    /\ ret' = IF Exists(savedPlan) THEN Str("resume") ELSE Str("create")
    /\ AfterMethod("develop_content_plan")
    /\ UNCHANGED <<app, op, arg, filevars, plan, idx, final_content, state, planCrewCalls,
                   researchCalls, failed, startFiles, written, ioFailed, statusOk, calls,
                   crewRaised>>

\* a faulty variant of NeedsPlan: the plan crew is asked whether the file is there or not
NeedsPlan_always(saved) == Exists(saved) \/ ~Exists(saved)

\* whether handle_plan asks the plan crew: only when there is no plan file
NeedsPlan(saved) == ~Exists(saved)

handle_plan ==
    /\ UNCHANGED <<hitlvars, toolvars, logvars>>
    /\ app = "dd" /\ pc = "handle_plan"
    /\ trace' = Append(trace, "handle_plan")
    /\ IF ~NeedsPlan(savedPlan)
       THEN /\ IF CanValidate(savedPlan)
               THEN /\ plan' = model_validate_json(savedPlan)
                    /\ ret' = PlanRet
                    /\ AfterMethod("handle_plan")
               ELSE /\ UNCHANGED <<plan, ret>>
                    /\ Raise
            /\ UNCHANGED <<savedPlan, planCrewCalls, written, ioFailed, crewRaised>>
       ELSE \E out \in DDPlanCrewOutputs, okW \in BOOLEAN :
            /\ (out.kind = "raise" => okW)
            /\ planCrewCalls' = planCrewCalls + 1
            /\ crewRaised' = (crewRaised \/ out.kind = "raise")
            /\ ioFailed' = (ioFailed \/ (out.kind # "raise" /\ ~okW))
            \* open(PLAN_FILE, "w") creates the file before
            \* plan.model_dump_json() is evaluated: with no plan the file is
            \* left empty
            /\ savedPlan' = IF out.kind = "raise" \/ ~okW THEN savedPlan
                            ELSE IF out.kind = "none" THEN BadText
                            ELSE model_dump_json(out.plan)
            /\ written' = IF out.kind = "raise" \/ ~okW THEN written
                          ELSE written \cup {PLAN_FILE}
            /\ IF out.kind = "pydantic" /\ okW
               THEN /\ plan' = out.plan
                    /\ ret' = PlanRet
                    /\ AfterMethod("handle_plan")
               ELSE /\ UNCHANGED <<plan, ret>>
                    /\ Raise
    /\ UNCHANGED <<app, op, arg, planApproved, planReview, statusFile, sectionFiles,
                   reportFile, idx, final_content, state, researchCalls, failed,
                   startFiles, statusOk, calls>>

\* research_company_overview_content up to its loop
research_company_overview_content ==
    /\ UNCHANGED <<hitlvars, toolvars, logvars>>
    /\ app = "dd" /\ pc = "research_company_overview_content"
    /\ trace' = Append(trace, "research_company_overview_content")
    /\ idx' = 1 /\ final_content' = <<>>
    /\ pc' = "research_company_overview_content_loop"
    /\ UNCHANGED <<app, op, arg, outcome, filevars, plan, ret, state, planCrewCalls,
                   researchCalls, failed, startFiles, written, ioFailed, statusOk, calls,
                   crewRaised>>

\* a faulty variant of DDAfterSection: the loop goes on after a failure
DDAfterSection_next(i, raised) == IF raised THEN "next" ELSE "next"

\* where the DD loop goes after section i: on to the next section, or out
\* of the method (return final_content) when the try block raised
DDAfterSection(i, raised) == IF raised THEN "return" ELSE "next"

\* one iteration of the loop of research_company_overview_content
research_company_overview_content_loop ==
    /\ UNCHANGED <<hitlvars, toolvars, logvars>>
    /\ app = "dd" /\ pc = "research_company_overview_content_loop" /\ idx <= Len(plan)
    /\ LET section == plan[idx]
           section_path == DDSectionFile(section)
       IN  IF ~NeedsResearch(sectionFiles, section_path)
           THEN /\ final_content' = Append(final_content, sectionFiles[section_path])
                /\ idx' = idx + 1
                /\ UNCHANGED <<sectionFiles, researchCalls, failed, crewRaised, ioFailed,
                               written, pc, outcome, ret>>
           ELSE \E out \in ResearchOutputs, okW \in BOOLEAN :
                LET raised == out = "raise" \/ ~okW
                IN  /\ (out = "raise" => okW)
                    /\ researchCalls' = CountCall(<<idx, "section">>)
                    /\ failed' = IF out = "raise" THEN failed \cup {idx} ELSE failed
                    /\ crewRaised' = (crewRaised \/ out = "raise")
                    /\ ioFailed' = (ioFailed \/ (out # "raise" /\ ~okW))
                    /\ final_content' = IF out = "raise" THEN final_content
                                        ELSE Append(final_content, out)
                    /\ sectionFiles' = IF raised THEN sectionFiles
                                       ELSE WriteFile(sectionFiles, section_path, out)
                    /\ written' = IF raised THEN written ELSE written \cup {section_path}
                    /\ IF DDAfterSection(idx, raised) = "next"
                       THEN /\ idx' = idx + 1
                            /\ UNCHANGED <<pc, outcome, ret>>
                       ELSE /\ idx' = idx
                            /\ ret' = ListRet
                            /\ AfterMethod("research_company_overview_content")
    /\ UNCHANGED <<app, op, arg, planApproved, planReview, savedPlan, statusFile,
                   reportFile, plan, state, planCrewCalls, trace, startFiles, statusOk,
                   calls>>

\* a faulty variant of plan_complete: the test never holds after a full loop
plan_complete_short(content, sections) == Len(content) < Len(sections)

\* the test before os.remove(PLAN_FILE)
plan_complete(content, sections) == Len(content) = Len(sections)

\* research_company_overview_content after its loop: the plan file is
\* removed (a failure to remove it is printed and swallowed)
research_company_overview_content_return ==
    /\ UNCHANGED <<hitlvars, toolvars, logvars>>
    /\ app = "dd" /\ pc = "research_company_overview_content_loop" /\ idx > Len(plan)
    /\ \E okRm \in BOOLEAN :
        /\ (~plan_complete(final_content, plan) => okRm)
        /\ savedPlan' = IF plan_complete(final_content, plan) /\ okRm /\ Exists(savedPlan)
                        THEN Missing ELSE savedPlan
        /\ ioFailed' = (ioFailed \/ ~okRm)
    /\ ret' = ListRet
    /\ AfterMethod("research_company_overview_content")
    /\ UNCHANGED <<app, op, arg, planApproved, planReview, statusFile, sectionFiles,
                   reportFile, plan, idx, final_content, state, planCrewCalls,
                   researchCalls, failed, trace, startFiles, written, statusOk, calls,
                   crewRaised>>

dd_save_to_markdown ==
    /\ UNCHANGED <<hitlvars, toolvars, logvars>>
    /\ app = "dd" /\ pc = "save_to_markdown"
    /\ trace' = Append(trace, "save_to_markdown")
    /\ \E okW \in BOOLEAN :
        IF okW
        THEN /\ reportFile' = Report(final_content)
             /\ written' = written \cup {REPORT_FILE}
             /\ ioFailed' = ioFailed
             /\ AfterMethod("save_to_markdown")
        ELSE /\ UNCHANGED <<reportFile, written>>
             /\ ioFailed' = TRUE
             /\ Raise
    /\ ret' = NoRet
    /\ UNCHANGED <<app, op, arg, planApproved, planReview, savedPlan, statusFile,
                   sectionFiles, plan, idx, final_content, state, planCrewCalls,
                   researchCalls, failed, startFiles, statusOk, calls, crewRaised>>

DDNext ==
    \/ dd_kickoff
    \/ develop_content_plan
    \/ handle_plan
    \/ research_company_overview_content
    \/ research_company_overview_content_loop
    \/ research_company_overview_content_return
    \/ dd_save_to_markdown


\* ---------------------------------------------------------------- ScanSourcesFlow
Keywords == {"k1", "k2"}
KeywordLists == SeqsUpTo(Keywords, MaxItems)

\* What RequirementsCrew().crew().kickoff() can do, as the two plan steps
\* tell the cases apart: raise; a str that is the JSON of a ResearchPlan;
\* a str that is JSON but no ResearchPlan (its construction raises a
\* validation error); anything else, kept as {"raw_output": text}.
\* keywords is the list the text names as keywords=[...].
RequirementsOutputs ==
    { [kind |-> "raise", keywords |-> <<>>], [kind |-> "bad_plan_json", keywords |-> <<>>] }
        \cup { [kind |-> k, keywords |-> ks] : k \in {"plan_json", "text"}, ks \in KeywordLists }

\* the dict a plan step stores for an output
StoredPlan(out) ==
    IF out.kind = "plan_json" THEN [form |-> "model", keywords |-> out.keywords]
    ELSE [form |-> "raw", keywords |-> out.keywords]

\* ResearchPlan.from_crew_output(...).research_items: only a dict with a
\* "raw_output" key is searched as text; any other dict is searched as
\* str(dict), which holds no keywords=[...]
\* the keywords from_crew_output extracts: those the text names as
\* keywords=[...], only for a dict with a "raw_output" key
extract_keywords(crew_output) ==
    IF crew_output.form = "raw" THEN crew_output.keywords ELSE <<>>

\* a faulty variant of ItemsFrom: every item gets the id item_1
ItemsFrom_sameId(keywords, i) ==
    [k \in 1..(Len(keywords) - i + 1) |->
        [id |-> <<"item_", "1">>, topic |-> keywords[k + i - 1],
         keywords |-> <<keywords[k + i - 1]>>]]

RECURSIVE ItemsFrom(_, _)
ItemsFrom(keywords, i) ==
    IF i > Len(keywords) THEN <<>>
    ELSE <<[id |-> <<"item_", IntToStr(i)>>, topic |-> keywords[i], keywords |-> <<keywords[i]>>]>>
            \o ItemsFrom(keywords, i + 1)
from_crew_output(crew_output) ==
    ItemsFrom(extract_keywords(crew_output), 1)

\* what a ResearchCrew kickoff of scan_sources can do: raise, return a dict
\* with the key the step looks for, or return anything else
ScanOutputs == {"raise", "dict", "other"}

\* run(initial_inputs): self.kickoff()
scan_run ==
    /\ UNCHANGED <<hitlvars, toolvars, logvars>>
    /\ app = "scan"
    /\ StartOp("run", NoArg)
    /\ pc' = "prepare_research_plan" /\ outcome' = "running"
    /\ trace' = <<>> /\ written' = {} /\ ioFailed' = FALSE
    /\ UNCHANGED filevars

prepare_research_plan ==
    /\ UNCHANGED <<hitlvars, toolvars, logvars>>
    /\ app = "scan" /\ pc = "prepare_research_plan"
    /\ trace' = Append(trace, "prepare_research_plan")
    /\ planCrewCalls' = planCrewCalls + 1
    \* of research_plan only the form matters to the next step: its keywords
    \* are left out of the state
    /\ \E out \in { o \in RequirementsOutputs : o.keywords = <<>> } :
        /\ crewRaised' = (crewRaised \/ out.kind = "raise")
        /\ IF out.kind \in {"raise", "bad_plan_json"}
           THEN /\ state' = [state EXCEPT !.error_message = "Error preparing research plan"]
                /\ ret' = Str("error")
           ELSE /\ state' = [state EXCEPT !.research_plan = StoredPlan(out)]
                /\ ret' = Str("requirements")
    /\ AfterMethod("prepare_research_plan")
    /\ UNCHANGED <<app, op, arg, filevars, plan, idx, final_content, researchCalls, failed,
                   startFiles, written, ioFailed, statusOk, calls>>

\* whether review_research_plan gets as far as its crew call: a stored dict
\* is first rebuilt as ResearchPlan(**dict), and a {"raw_output": text} dict
\* lacks the required fields (a validation error, not the TypeError the
\* inner except names); None and a dumped ResearchPlan pass
ReviewReachesCrew(research_plan) == research_plan.form # "raw"

\* the router after prepare_research_plan
review_research_plan ==
    /\ UNCHANGED <<hitlvars, toolvars, logvars>>
    /\ app = "scan" /\ pc = "review_research_plan"
    /\ trace' = Append(trace, "review_research_plan")
    /\ IF ~ReviewReachesCrew(state.research_plan)
       THEN /\ state' = [state EXCEPT !.error_message = "Error reviewing research plan"]
            /\ ret' = Str("error")
            /\ AfterLabel("error")
            /\ UNCHANGED <<planCrewCalls, crewRaised>>
       ELSE /\ planCrewCalls' = planCrewCalls + 1
            /\ \E out \in RequirementsOutputs :
                /\ crewRaised' = (crewRaised \/ out.kind = "raise")
                /\ IF out.kind \in {"raise", "bad_plan_json"}
                   THEN /\ state' = [state EXCEPT !.error_message = "Error reviewing research plan"]
                        /\ ret' = Str("error")
                        /\ AfterLabel("error")
                   ELSE /\ state' = [state EXCEPT !.validated_plan = StoredPlan(out)]
                        /\ ret' = Str("research")
                        /\ AfterLabel("research")
    /\ UNCHANGED <<app, op, arg, filevars, plan, idx, final_content, researchCalls, failed,
                   startFiles, written, ioFailed, statusOk, calls>>

\* scan_sources up to its loop over the research items
scan_sources ==
    /\ UNCHANGED <<hitlvars, toolvars, logvars>>
    /\ app = "scan" /\ pc = "scan_sources"
    /\ trace' = Append(trace, "scan_sources")
    /\ LET research_items == from_crew_output(state.validated_plan)
       IN  IF state.validated_plan.form = "none"
           THEN /\ state' = [state EXCEPT !.error_message = "No validated research plan found."]
                /\ ret' = Str("error")
                /\ UNCHANGED <<plan, idx, final_content>>
                /\ AfterMethod("scan_sources")
           ELSE IF research_items = <<>>
           THEN /\ state' = [state EXCEPT !.error_message =
                                "No research items found in the validated plan."]
                /\ ret' = Str("error")
                /\ UNCHANGED <<plan, idx, final_content>>
                /\ AfterMethod("scan_sources")
           ELSE /\ plan' = research_items
                /\ idx' = 1 /\ final_content' = <<>>
                /\ pc' = "scan_sources_loop"
                /\ UNCHANGED <<state, ret, outcome>>
    /\ UNCHANGED <<app, op, arg, filevars, planCrewCalls, researchCalls, failed,
                   startFiles, written, ioFailed, statusOk, calls, crewRaised>>

\* the findings a crew result adds to a list: those under the key, when the
\* result is a dict that has it
Finding(source_type, i) == [source_type |-> source_type, item |-> i]
\* a faulty variant of Extend: the findings collected so far are dropped
Extend_fresh(list, out, source_type, i) ==
    IF out = "dict" THEN <<Finding(source_type, i)>> ELSE list

Extend(list, out, source_type, i) ==
    IF out = "dict" THEN Append(list, Finding(source_type, i)) ELSE list

\* one iteration of the loop of scan_sources: the web call, then the
\* document call, in one try block
scan_sources_loop ==
    /\ UNCHANGED <<hitlvars, toolvars, logvars>>
    /\ app = "scan" /\ pc = "scan_sources_loop" /\ idx <= Len(plan)
    /\ \E web \in ScanOutputs, doc \in ScanOutputs :
        /\ (web = "raise" => doc = "raise")
        /\ researchCalls' =
             IF web = "raise"
             THEN [k \in (DOMAIN researchCalls) \cup {<<idx, "web">>} |->
                     IF k = <<idx, "web">> THEN CallsOf(k) + 1 ELSE researchCalls[k]]
             ELSE [k \in (DOMAIN researchCalls) \cup {<<idx, "web">>, <<idx, "document">>} |->
                     IF k \in {<<idx, "web">>, <<idx, "document">>}
                     THEN CallsOf(k) + 1 ELSE researchCalls[k]]
        /\ failed' = IF web = "raise" \/ doc = "raise" THEN failed \cup {idx} ELSE failed
        /\ crewRaised' = (crewRaised \/ web = "raise" \/ doc = "raise")
        /\ final_content' =
             IF web = "raise" THEN final_content
             ELSE Extend(Extend(final_content, web, "web", idx), doc, "document", idx)
    /\ idx' = idx + 1
    /\ UNCHANGED <<app, op, arg, pc, outcome, filevars, plan, ret, state, planCrewCalls,
                   trace, startFiles, written, ioFailed, statusOk, calls>>

OfType(list, source_type) == SelectSeq(list, LAMBDA f : f.source_type = source_type)

\* scan_sources after its loop: the findings are stored, then the synthesis
\* and the review calls, in one try block; the step returns "success"
scan_sources_return ==
    /\ UNCHANGED <<hitlvars, toolvars, logvars>>
    /\ app = "scan" /\ pc = "scan_sources_loop" /\ idx > Len(plan)
    /\ \E syn \in ScanOutputs, rev \in ScanOutputs :
        LET synthesized == IF syn = "dict" THEN "synthesized" ELSE state.synthesized_forces
        IN  /\ (syn = "raise" => rev = "raise")
            /\ researchCalls' =
                 IF syn = "raise"
                 THEN [k \in (DOMAIN researchCalls) \cup {<<0, "synthesis">>} |->
                         IF k = <<0, "synthesis">> THEN CallsOf(k) + 1 ELSE researchCalls[k]]
                 ELSE [k \in (DOMAIN researchCalls) \cup {<<0, "synthesis">>, <<0, "review">>} |->
                         IF k \in {<<0, "synthesis">>, <<0, "review">>}
                         THEN CallsOf(k) + 1 ELSE researchCalls[k]]
            /\ crewRaised' = (crewRaised \/ syn = "raise" \/ rev = "raise")
            /\ state' = [state EXCEPT
                 !.web_findings = OfType(final_content, "web"),
                 !.document_findings = OfType(final_content, "document"),
                 !.synthesized_forces = IF syn = "raise" THEN @ ELSE synthesized,
                 !.final_forces = IF syn = "raise" \/ rev = "raise" THEN @
                                  ELSE IF rev = "dict" THEN "reviewed" ELSE synthesized]
    /\ ret' = Str("success")
    /\ AfterMethod("scan_sources")
    /\ UNCHANGED <<app, op, arg, filevars, plan, idx, final_content, planCrewCalls, failed,
                   trace, startFiles, written, ioFailed, statusOk, calls>>

finish_error ==
    /\ UNCHANGED <<hitlvars, toolvars, logvars>>
    /\ app = "scan" /\ pc = "finish_error"
    /\ trace' = Append(trace, "finish_error")
    /\ ret' = NoRet
    /\ AfterMethod("finish_error")
    /\ UNCHANGED <<app, op, arg, filevars, plan, idx, final_content, state, planCrewCalls,
                   researchCalls, failed, startFiles, written, ioFailed, statusOk, calls,
                   crewRaised>>

\* synthesize_findings, review_findings, generate_outputs and finish_success
\* listen to labels ("synthesize", "review", "packaging", "complete") that
\* no router returns: Triggered never yields them, so they have no action.
ScanNext ==
    \/ scan_run
    \/ prepare_research_plan
    \/ review_research_plan
    \/ scan_sources
    \/ scan_sources_loop
    \/ scan_sources_return
    \/ finish_error


\* ---------------------------------------------------------------- human input handshake
\* The flow process runs handle_human_input_task while the Streamlit process
\* runs its script; they share the request and the response file. Each file
\* operation is a step of its process. save_json opens the file for writing
\* (the file exists, empty) and then dumps the JSON into it.
Partial == [kind |-> "partial"]
Full(task) == [kind |-> "full", task |-> task]

\* load_json: None for a missing file, the data of a complete one; json.load
\* raises on a file that is still empty
load_json(file) ==
    IF ~Exists(file) THEN "None" ELSE IF file.kind = "partial" THEN "raise" ELSE "data"

\* the environment of the three file steps below
HitlFrame ==
    UNCHANGED <<app, op, arg, filevars, plan, idx, final_content, state, planCrewCalls,
                researchCalls, failed, startFiles, written, ioFailed, statusOk, calls,
                crewRaised, toolvars, logvars>>

\* handle_human_input_task(task_id, ...) is called; the task is numbered by
\* the call
handle_human_input_task ==
    /\ app = "hitl"
    /\ StartOp("handle_human_input_task", NoArg)
    /\ pc' = "update_flow_status" /\ outcome' = "running"
    /\ trace' = <<>> /\ written' = {} /\ ioFailed' = FALSE
    /\ UNCHANGED filevars
    /\ UNCHANGED <<hitlvars, toolvars, logvars>>

\* what update_flow_status saves
status_data(status, current_step) == [status |-> status, current_step |-> current_step]

\* a faulty variant of status_after_response: the status is left as it is
status_after_response_kept == flowStatus.status

\* the status the handler writes once a response has been read
status_after_response == "running"

\* update_flow_status("waiting", ...): flow_status.json is written, or the
\* write raises
update_flow_status ==
    /\ app = "hitl" /\ pc = "update_flow_status"
    /\ trace' = Append(trace, "update_flow_status")
    /\ \E ok \in BOOLEAN :
        IF ok
        THEN /\ flowStatus' = status_data("waiting", calls)
             /\ pc' = "request_human_input" /\ outcome' = outcome
        ELSE /\ flowStatus' = flowStatus
             /\ Raise
    /\ UNCHANGED <<ret, requestFile, responseFile, ui, submitted>>
    /\ HitlFrame

\* request_human_input: save_json(request_data, ...) opens the request file
request_human_input ==
    /\ app = "hitl" /\ pc = "request_human_input"
    /\ trace' = Append(trace, "request_human_input")
    /\ requestFile' = Partial
    /\ pc' = "request_dump"
    /\ UNCHANGED <<outcome, ret, responseFile, ui, submitted, flowStatus>>
    /\ HitlFrame

\* ... and dumps the request into the open file; when the Streamlit script
\* has unlinked the file meanwhile, the dump goes into the unlinked file and
\* the path stays missing
request_dump ==
    /\ app = "hitl" /\ pc = "request_dump"
    /\ requestFile' = IF requestFile = Partial THEN Full(calls) ELSE requestFile
    /\ pc' = "request_clear"
    /\ UNCHANGED <<outcome, ret, trace, responseFile, ui, submitted, flowStatus>>
    /\ HitlFrame

\* a faulty variant of cleared_response: a previous response is left in place
cleared_response_kept(file) == file

\* the response path after "if exists: unlink"
cleared_response(file) == Missing

\* ... and then clears any previous response. A response file the Streamlit
\* script holds open is unlinked where the platform unlinks open files, and
\* the unlink raises where it does not.
request_clear ==
    /\ app = "hitl" /\ pc = "request_clear"
    /\ \E unlinked \in BOOLEAN :
        /\ (responseFile # Partial => unlinked)
        /\ IF unlinked
           THEN /\ responseFile' = cleared_response(responseFile)
                /\ pc' = "get_human_input_response" /\ outcome' = outcome
           ELSE /\ responseFile' = responseFile
                /\ Raise
    /\ UNCHANGED <<ret, trace, requestFile, ui, submitted, flowStatus>>
    /\ HitlFrame

\* one round of the polling loop: get_human_input_response(), then either
\* sleep, leave the loop with the response, or let json.load's exception
\* through
get_human_input_response ==
    /\ app = "hitl" /\ pc = "get_human_input_response"
    /\ LET response == load_json(responseFile)
       IN  IF response = "None"
           THEN UNCHANGED <<pc, outcome, ret, trace>>
           ELSE IF response = "raise"
           THEN /\ Raise
                /\ UNCHANGED <<ret, trace>>
           ELSE /\ ret' = [type |-> "response", task |-> responseFile.task]
                /\ trace' = Append(trace, "get_human_input_response")
                /\ pc' = "update_flow_status_running" /\ outcome' = outcome
    /\ UNCHANGED <<hitlvars, toolvars, logvars>>
    /\ HitlFrame

\* update_flow_status("running", ...) and return response
update_flow_status_running ==
    /\ app = "hitl" /\ pc = "update_flow_status_running"
    /\ trace' = Append(trace, "update_flow_status_running")
    /\ \E ok \in BOOLEAN :
        IF ok
        THEN /\ flowStatus' = status_data(status_after_response, calls)
             /\ Return
        ELSE /\ flowStatus' = flowStatus
             /\ Raise
    /\ UNCHANGED <<ret, requestFile, responseFile, ui, submitted>>
    /\ HitlFrame

\* the Streamlit script runs handle_human_input_request and shows the form
\* of a complete request
handle_human_input_request ==
    /\ app = "hitl" /\ ui.pc = "idle"
    /\ load_json(requestFile) = "data"
    /\ ui' = [pc |-> "form", task |-> requestFile.task]
    /\ UNCHANGED <<pc, outcome, ret, trace, requestFile, responseFile, submitted, flowStatus>>
    /\ HitlFrame

\* the task_id of the response: the one of the request as read in this run
\* of the script
response_task_id(request) == request.task

\* the reviewer clicks "Submit Feedback": the script runs again from the top,
\* reads the request file as it is now, and opens the response file
submit_feedback ==
    /\ app = "hitl" /\ ui.pc = "form"
    /\ IF load_json(requestFile) = "data"
       THEN /\ responseFile' = Partial
            /\ ui' = [pc |-> "save_response", task |-> response_task_id(requestFile)]
       ELSE /\ responseFile' = responseFile
            /\ ui' = [pc |-> "idle", task |-> 0]
    /\ UNCHANGED <<pc, outcome, ret, trace, requestFile, submitted, flowStatus>>
    /\ HitlFrame

\* save_json(response_data, ...) dumps the response into the open file; when
\* the flow has unlinked the file meanwhile, the dump goes into the unlinked
\* file and the path stays missing
save_response ==
    /\ app = "hitl" /\ ui.pc = "save_response"
    /\ responseFile' = IF responseFile = Partial THEN Full(ui.task) ELSE responseFile
    /\ submitted' = submitted \cup {ui.task}
    /\ ui' = [ui EXCEPT !.pc = "unlink_request"]
    /\ UNCHANGED <<pc, outcome, ret, trace, requestFile, flowStatus>>
    /\ HitlFrame

\* the request file is removed to indicate it has been handled. A request
\* file the flow holds open is unlinked where the platform unlinks open
\* files; where it does not, the unlink raises and the script run ends.
unlink_request ==
    /\ app = "hitl" /\ ui.pc = "unlink_request"
    /\ \E unlinked \in BOOLEAN :
        /\ (requestFile # Partial => unlinked)
        /\ requestFile' = IF unlinked THEN Missing ELSE requestFile
    /\ ui' = [pc |-> "idle", task |-> 0]
    /\ UNCHANGED <<pc, outcome, ret, trace, responseFile, submitted, flowStatus>>
    /\ HitlFrame

HitlNext ==
    \/ handle_human_input_task
    \/ update_flow_status
    \/ request_human_input
    \/ request_dump
    \/ request_clear
    \/ get_human_input_response
    \/ update_flow_status_running
    \/ handle_human_input_request
    \/ submit_feedback
    \/ save_response
    \/ unlink_request


\* ---------------------------------------------------------------- scan_sources main()
\* the three entries of FLOW_VARIABLES that main() lets the flags override
FLOW_VARIABLES ==
    [target_industry |-> "Coal Mining", target_market |-> "Global", time_horizon |-> "3-5 years"]

\* an argparse attribute: None when the flag is not given, else its string
NoFlag == [given |-> FALSE, value |-> ""]
Flag(v) == [given |-> TRUE, value |-> v]
\* "if args.x:" is false for None and for the empty string
Truthy(flag) == flag.given /\ flag.value # ""

\* the command lines main() can be run with
CommandLines ==
    [industry : {NoFlag, Flag(""), Flag("Steel")},
     market : {NoFlag, Flag(""), Flag("Europe")},
     time_horizon : {NoFlag, Flag(""), Flag("10 years")}]

\* a faulty variant of config_of: --market is stored as the industry
config_of_crossed(args) ==
    LET c1 == IF Truthy(args.market)
              THEN [FLOW_VARIABLES EXCEPT !.target_industry = args.market.value]
              ELSE FLOW_VARIABLES
        c2 == IF Truthy(args.industry) THEN [c1 EXCEPT !.target_market = args.industry.value] ELSE c1
    IN  IF Truthy(args.time_horizon) THEN [c2 EXCEPT !.time_horizon = args.time_horizon.value] ELSE c2

\* config_dict after the three overrides
config_of(args) ==
    LET c1 == IF Truthy(args.industry)
              THEN [FLOW_VARIABLES EXCEPT !.target_industry = args.industry.value]
              ELSE FLOW_VARIABLES
        c2 == IF Truthy(args.market) THEN [c1 EXCEPT !.target_market = args.market.value] ELSE c1
    IN  IF Truthy(args.time_horizon) THEN [c2 EXCEPT !.time_horizon = args.time_horizon.value] ELSE c2

\* MarketForceInput(target_industry=config_dict.get(...), ...): the three
\* fields of the initial inputs
MarketForceInput(config_dict) ==
    [type |-> "MarketForceInput",
     target_industry |-> config_dict.target_industry,
     target_market |-> config_dict.target_market,
     time_horizon |-> config_dict.time_horizon]

CliFrame ==
    UNCHANGED <<filevars, hitlvars, toolvars, logvars>>

\* main() up to scan_flow.run(initial_inputs=market_force_input)
main ==
    /\ app = "cli"
    /\ pc = "idle" /\ calls < MaxCalls /\ calls' = calls + 1
    /\ \E args \in CommandLines :
        /\ op' = "main" /\ arg' = args
        /\ ret' = MarketForceInput(config_of(args))
    /\ pc' = "run" /\ outcome' = "running"
    /\ UNCHANGED <<app, plan, idx, final_content, state, planCrewCalls, researchCalls,
                   failed, startFiles, statusOk, crewRaised>>
    /\ trace' = <<"main">> /\ written' = {} /\ ioFailed' = FALSE
    /\ CliFrame

\* scan_flow.run(...) returns to main: the flow it runs is the one of
\* app = "scan", which reads none of the initial inputs
main_run ==
    /\ app = "cli" /\ pc = "run"
    /\ trace' = Append(trace, "run")
    /\ Return
    /\ UNCHANGED <<app, op, arg, plan, ret, idx, final_content, state, planCrewCalls,
                   researchCalls, failed, startFiles, written, ioFailed, statusOk, calls,
                   crewRaised>>
    /\ CliFrame

CliNext ==
    \/ main
    \/ main_run


\* ---------------------------------------------------------------- the tools
\* what a tool call leaves alone: the flows' state
ToolFrame ==
    UNCHANGED <<app, pc, outcome, filevars, hitlvars, logvars, plan, idx, final_content, state,
                planCrewCalls, researchCalls, failed, trace, startFiles, written, ioFailed,
                statusOk, crewRaised>>

\* ------------------------------------------------ TavilySearchTool
\* TAVILY_API_KEY after strip(): empty (unset or blank) or a key
ApiKeys == {"", "tvly-key"}

\* what self._tavily_client.search(...) and the formatting of its result
\* can do: a dict whose results are dicts, a dict whose results are not (the
\* formatting raises), something that is no dict, an exception that names an
\* invalid API key, any other exception
SearchOutcomes == {"dict", "bad_results", "other", "raise_invalid_api_key", "raise"}
SearchRaised(out) == out \in {"bad_results", "raise_invalid_api_key", "raise"}

\* the string _run returns for an outcome of the try block
SearchMessage(out) ==
    IF out = "dict" THEN "Answer Summary"
    ELSE IF out = "other" THEN "Search Results"
    ELSE IF out = "raise_invalid_api_key" THEN "Tavily API Key Error"
    ELSE "Tavily Search Error (type)"
\* _fallback_search(query)
fallback_search == "Tavily Search Error: key status"

\* TavilySearchTool(): the client is built only with a key, and its
\* construction can raise
TavilySearchTool ==
    /\ app = "tavily" /\ tool = NoTool
    /\ \E api_key \in ApiKeys, built \in BOOLEAN :
        /\ (api_key = "" => ~built)
        /\ tool' = [kind |-> "tavily", api_key |-> api_key,
                    tavily_client |-> built,
                    use_fallback |-> ~built,
                    searches |-> 0]
    /\ op' = "TavilySearchTool" /\ arg' = NoArg /\ ret' = NoRet
    /\ UNCHANGED calls
    /\ ToolFrame

\* a faulty variant of use_fallback_now: the tool tries the client every time
use_fallback_now_never(t) == FALSE

\* the test at the top of _run
use_fallback_now(t) == t.use_fallback

\* _run(query, max_results)
tavily_run ==
    /\ app = "tavily" /\ tool # NoTool
    /\ calls < MaxRuns /\ calls' = calls + 1
    /\ op' = "_run" /\ arg' = NoArg
    /\ IF use_fallback_now(tool)
       THEN /\ ret' = Str(fallback_search)
            /\ tool' = tool
       ELSE \E out \in SearchOutcomes :
            \* without a client, self._tavily_client.search raises
            /\ (~tool.tavily_client => out = "raise")
            /\ ret' = Str(SearchMessage(out))
            /\ tool' = [tool EXCEPT
                          !.use_fallback = (@ \/ SearchRaised(out)),
                          !.searches = IF tool.tavily_client THEN @ + 1 ELSE @]
    /\ ToolFrame

\* ------------------------------------------------ PDFDownloaderTool
\* URLs by their last path component: its name and its extension
Urls ==
    { [name |-> n, ext |-> e] : n \in {"report"}, e \in {".pdf", ".PDF", ".html", ""} }
        \cup { [name |-> "", ext |-> ""] }
\* url.lower().endswith('.pdf'), filename.lower().endswith('.pdf')
EndsWithPdf(url) == url.ext \in {".pdf", ".PDF"}

\* what self._session.head(...) can do
HeadOutcomes ==
    { [kind |-> "response", status_code |-> c, content_type |-> t] :
        c \in {200, 404, 500}, t \in {"application/pdf", "text/html"} }
    \cup { [kind |-> k, status_code |-> 0, content_type |-> ""] :
            k \in {"ConnectionError", "Timeout", "RequestException", "Exception"} }

\* what the download can do: the GET or raise_for_status raises, open()
\* raises, the stream or a write raises once the file is open, or all is
\* written
GetOutcomes == {"RequestException", "open_raises", "stream_raises", "write_raises", "ok"}

\* _is_likely_pdf_url(url): (is_valid, message); "raise" when head raised
\* something the method does not catch
is_likely_pdf_url(url, head) ==
    IF head.kind = "Exception" THEN [is_valid |-> FALSE, message |-> "raise"]
    ELSE IF head.kind = "ConnectionError"
    THEN [is_valid |-> FALSE, message |-> "Could not connect to the server"]
    ELSE IF head.kind = "Timeout" THEN [is_valid |-> FALSE, message |-> "Request timed out"]
    ELSE IF head.kind = "RequestException"
    THEN [is_valid |-> FALSE, message |-> "Error checking URL"]
    ELSE IF head.status_code = 404
    THEN [is_valid |-> FALSE, message |-> "URL not found (404 error)"]
    ELSE IF head.status_code # 200
    THEN [is_valid |-> FALSE, message |-> "URL returned status code"]
    ELSE IF head.content_type = "application/pdf"
    THEN [is_valid |-> TRUE, message |-> "Content-Type indicates PDF"]
    ELSE IF EndsWithPdf(url) THEN [is_valid |-> TRUE, message |-> "URL ends with .pdf"]
    ELSE [is_valid |-> FALSE, message |-> "URL does not appear to be a PDF"]

\* _sanitize_filename(url)
sanitize_filename(url) ==
    IF url.name = "" /\ url.ext = "" THEN <<"downloaded.pdf">>
    ELSE IF EndsWithPdf(url) THEN <<url.name, url.ext>>
    ELSE <<url.name, url.ext, ".pdf">>

\* the reference directory when a tool is built: empty, or with a PDF
\* downloaded before
ReferenceDirs == { <<>>, [f \in {<<"report", ".pdf">>} |-> "pdf"] }

\* PDFDownloaderTool(): the reference directory is there
PDFDownloaderTool ==
    /\ app = "pdf" /\ tool = NoTool
    /\ \E dir \in ReferenceDirs : tool' = [kind |-> "pdf", dir |-> dir]
    /\ op' = "PDFDownloaderTool" /\ arg' = NoArg /\ ret' = NoRet
    /\ UNCHANGED calls
    /\ ToolFrame

\* whether _run goes on to the GET after the check of the URL
download_starts(check) == check.is_valid

\* _run(url): arg keeps the inputs and the directory as it was
pdf_run ==
    /\ app = "pdf" /\ tool # NoTool
    /\ calls < MaxRuns /\ calls' = calls + 1
    /\ op' = "_run"
    /\ \E url \in Urls, head \in HeadOutcomes, get \in GetOutcomes :
        LET check == is_likely_pdf_url(url, head)
            filepath == sanitize_filename(url)
        IN  /\ (~download_starts(check) => get = "ok")
            /\ arg' = [url |-> url, head |-> head,
                       get |-> IF download_starts(check) THEN get ELSE "none",
                       dir |-> tool.dir]
            /\ IF check.message = "raise"
               THEN ret' = Str("Unexpected error downloading PDF") /\ tool' = tool
               ELSE IF ~download_starts(check)
               THEN ret' = Str("Could not download PDF") /\ tool' = tool
               ELSE IF get = "RequestException"
               THEN ret' = Str("Error downloading PDF") /\ tool' = tool
               ELSE IF get = "open_raises"
               THEN ret' = Str("Unexpected error downloading PDF") /\ tool' = tool
               ELSE IF get = "stream_raises"
               THEN /\ ret' = Str("Error downloading PDF")
                    /\ tool' = [tool EXCEPT !.dir = WriteFile(@, filepath, "partial")]
               ELSE IF get = "write_raises"
               THEN /\ ret' = Str("Unexpected error downloading PDF")
                    /\ tool' = [tool EXCEPT !.dir = WriteFile(@, filepath, "partial")]
               ELSE /\ ret' = Str("Successfully downloaded PDF")
                    /\ tool' = [tool EXCEPT !.dir = WriteFile(@, filepath, "pdf")]
    /\ ToolFrame

\* ------------------------------------------------ PerplexityLLM
\* message dicts: msg.get('role') and msg.get('content'), "" standing for
\* every falsy value (a missing key, None, an empty string)
Messages ==
    { [role |-> r, content |-> c] : r \in {"", "system", "user", "assistant"},
                                    c \in {"", "text"} }
MessageLists == SeqsUpTo(Messages, MaxMessages)

\* the loop that filters out invalid messages
RECURSIVE valid_messages(_, _)
valid_messages(messages, i) ==
    IF i > Len(messages) THEN <<>>
    ELSE (IF messages[i].content # "" /\ messages[i].role # "" THEN <<messages[i]>> ELSE <<>>)
            \o valid_messages(messages, i + 1)

\* a faulty variant of ensure_user_last: nothing is appended
ensure_user_last_skipped(msgs) == msgs

\* a user message is appended when the last message is not from the user
ensure_user_last(msgs) ==
    IF msgs # <<>> /\ msgs[Len(msgs)].role # "user"
    THEN Append(msgs, [role |-> "user", content |-> "Please continue analyzing."])
    ELSE msgs

\* _prepare_messages(messages)
prepare_messages(messages) ==
    LET valid == valid_messages(messages, 1)
        some == IF valid = <<>>
                THEN <<[role |-> "system", content |-> "You are a helpful assistant."]>>
                ELSE valid
    IN  ensure_user_last(some)

\* a call of _prepare_messages
perplexity_prepare_messages ==
    /\ app = "perplexity"
    /\ calls < MaxCalls /\ calls' = calls + 1
    /\ op' = "_prepare_messages"
    /\ \E messages \in MessageLists :
        /\ arg' = messages
        /\ ret' = [type |-> "list", value |-> prepare_messages(messages)]
    /\ UNCHANGED toolvars
    /\ ToolFrame

ToolNext ==
    \/ TavilySearchTool
    \/ tavily_run
    \/ PDFDownloaderTool
    \/ pdf_run
    \/ perplexity_prepare_messages

Next == ForesightNext \/ DDNext \/ ScanNext \/ HitlNext \/ CliNext \/ ToolNext

Spec == Init /\ [][Next]_vars

\* The steps a flow takes by itself once an entry point has been called. The
\* code is sequential and has no wait between steps: a step that can run
\* does run (a crew call returns or raises).
FlowStep ==
    \/ develop_plan \/ handle_plan_flow \/ create_new_plan \/ wait_for_approval
    \/ research_sections \/ research_sections_loop \/ research_sections_return
    \/ save_to_markdown \/ resume_flow_with_approved_plan
    \/ develop_content_plan \/ handle_plan \/ research_company_overview_content
    \/ research_company_overview_content_loop \/ research_company_overview_content_return
    \/ dd_save_to_markdown
    \/ prepare_research_plan \/ review_research_plan \/ scan_sources
    \/ scan_sources_loop \/ scan_sources_return \/ finish_error
    \/ update_flow_status \/ request_human_input \/ request_dump \/ request_clear
    \/ get_human_input_response \/ update_flow_status_running
    \/ main_run

\* The Streamlit script, once it has opened the response file, goes on to
\* save the response and remove the request; when and whether the reviewer
\* submits is up to the reviewer.
StreamlitStep == save_response \/ unlink_request

FairSpec == Spec /\ WF_vars(FlowStep) /\ WF_vars(StreamlitStep)

\* ---------------------------------------------------------------- properties
InTrace(m) == \E i \in DOMAIN trace : trace[i] = m
\* the call of an entry point has ended
Ended == pc = "idle" /\ op # "none"
\* the flow is paused awaiting review when a call begins: a plan is up for
\* review and none is approved
PausedAtStart == Exists(startFiles.review) /\ ~Exists(startFiles.approved)

\* C1 as stated: research_sections never starts with plan_approved.json
\* missing, and the research crew is invoked only while the file exists and
\* holds a valid plan.
C1_NeverStartsWithoutApprovedFile ==
    app = "foresight" =>
        /\ (InTrace("research_sections") => Exists(planApproved))
        /\ (researchCalls # <<>> => Exists(planApproved) /\ CanValidate(planApproved))

\* C1 amended: the research crew is invoked only while plan_approved.json
\* exists and holds a valid plan, and the plan researched is the plan of that
\* file; research_sections starts with the file missing only in a direct
\* call of resume_flow_with_approved_plan, and then it raises before any
\* research crew call.
C1_ResearchOnlyApprovedPlan ==
    app = "foresight" =>
        /\ (researchCalls # <<>> \/ pc = "research_sections_loop" =>
                /\ Exists(planApproved) /\ CanValidate(planApproved)
                /\ plan = model_validate_json(planApproved))
        /\ (InTrace("research_sections") /\ ~Exists(planApproved) =>
                /\ op = "resume" /\ researchCalls = <<>>
                /\ pc = "idle" /\ outcome = "raised")

\* a kickoff that found plan_approved.json has invoked the research crew
C1_Witness ==
    /\ app = "foresight" /\ op = "kickoff"
    /\ Exists(startFiles.approved) /\ researchCalls # <<>>

\* C2 as stated: a kickoff started with neither plan file invokes the plan
\* crew exactly once, writes the plan to plan_for_review.json, never to
\* plan_approved.json, reaches wait_for_approval with status awaiting_review,
\* and invokes no research crew and writes no report.
C2_FreshKickoffPauses ==
    (app = "foresight" /\ op = "kickoff" /\ Ended
        /\ ~Exists(startFiles.approved) /\ ~Exists(startFiles.review)) =>
        /\ planCrewCalls = 1
        /\ PLAN_REVIEW_FILE \in written /\ planReview = model_dump_json(plan)
        /\ ~Exists(planApproved)
        /\ InTrace("wait_for_approval") /\ statusFile.status = "awaiting_review"
        /\ researchCalls = <<>> /\ REPORT_FILE \notin written

\* C2 amended: such a kickoff invokes the plan crew exactly once, writes no
\* plan_approved.json, invokes no research crew and writes no report; when
\* neither the plan crew call nor a file write raises it writes the plan to
\* plan_for_review.json and reaches wait_for_approval, with status
\* awaiting_review when status.json can be written. The kickoff always ends.
C2_FreshKickoffEnd ==
    (app = "foresight" /\ op = "kickoff" /\ Ended
        /\ ~Exists(startFiles.approved) /\ ~Exists(startFiles.review)) =>
        /\ planCrewCalls = 1
        /\ ~Exists(planApproved) /\ PLAN_APPROVED_FILE \notin written
        /\ researchCalls = <<>> /\ REPORT_FILE \notin written
        /\ ~InTrace("research_sections") /\ ~InTrace("save_to_markdown")
        /\ (~crewRaised /\ ~ioFailed =>
                /\ outcome = "returned"
                /\ PLAN_REVIEW_FILE \in written /\ planReview = model_dump_json(plan)
                /\ trace = <<"develop_plan", "handle_plan_flow", "create_new_plan",
                             "wait_for_approval">>
                /\ (statusOk => statusFile = StatusData("awaiting_review", "wait_for_approval", 25)))
        /\ (crewRaised \/ ioFailed => outcome = "raised" /\ ~InTrace("wait_for_approval"))
\* C2 amended, in full: the above when the kickoff has ended; while it runs
\* the plan crew has been invoked at most once, no research crew has been
\* invoked and plan_approved.json does not exist; and every such kickoff ends.
C2_FreshKickoffPausesUnlessRaised ==
    /\ []C2_FreshKickoffEnd
    /\ [](app = "foresight" /\ op = "kickoff" /\ ~Ended
            /\ ~Exists(startFiles.approved) /\ ~Exists(startFiles.review) =>
                planCrewCalls <= 1 /\ researchCalls = <<>> /\ ~Exists(planApproved))
    /\ ((app = "foresight" /\ op = "kickoff" /\ pc = "develop_plan"
            /\ ~Exists(startFiles.approved) /\ ~Exists(startFiles.review)) ~> Ended)

\* a fresh kickoff has paused at wait_for_approval
C2_Witness ==
    /\ app = "foresight" /\ op = "kickoff" /\ Ended
    /\ ~Exists(startFiles.approved) /\ ~Exists(startFiles.review)
    /\ InTrace("wait_for_approval") /\ Exists(planReview)

\* the route the files found at kickoff call for
ExpectedRoute ==
    IF Exists(startFiles.approved) THEN "plan_approved"
    ELSE IF Exists(startFiles.review) THEN "awaiting_review"
    ELSE "create_new_plan"
RouteStep(r) ==
    IF r = "plan_approved" THEN "research_sections"
    ELSE IF r = "awaiting_review" THEN "wait_for_approval" ELSE r

C4_ApprovalEnd ==
    (app = "foresight" /\ op = "update" /\ Ended /\ CanValidate(arg) /\ PausedAtStart) =>
        /\ (outcome = "True" <=> REPORT_FILE \in written)
        /\ (~ioFailed => outcome = "True")
        /\ (outcome = "True" =>
                /\ trace = <<"update_plan_from_user_edits", "resume_flow_with_approved_plan",
                             "research_sections", "save_to_markdown">>
                /\ plan = model_validate_json(arg)
                /\ reportFile = Report(final_content)
                /\ (statusOk => statusFile = StatusData("complete", "complete", 100)))
DDResearching ==
    app = "dd" /\ pc \in {"research_company_overview_content",
                          "research_company_overview_content_loop"}

\* C6: when saved_plan.json exists at kickoff the plan crew is not invoked
\* and the plan is the one of the file; otherwise the plan crew is invoked
\* exactly once and its plan is in saved_plan.json before any section is
\* researched. While sections are researched saved_plan.json exists and holds
\* the plan being researched.
C6_PlanFromFileOrCrewOnce ==
    app = "dd" =>
        /\ planCrewCalls <= 1
        /\ (Exists(startFiles.saved) => planCrewCalls = 0)
        /\ (DDResearching =>
                /\ Exists(savedPlan) /\ CanValidate(savedPlan)
                /\ model_validate_json(savedPlan) = plan)
        /\ (DDResearching /\ Exists(startFiles.saved) =>
                /\ savedPlan = startFiles.saved
                /\ plan = model_validate_json(startFiles.saved))
        /\ (DDResearching /\ ~Exists(startFiles.saved) =>
                /\ planCrewCalls = 1 /\ PLAN_FILE \in written
                /\ savedPlan = model_dump_json(plan))
        /\ (researchCalls # <<>> => InTrace("handle_plan"))

\* a kickoff that found saved_plan.json is researching a section of its plan
C6_Witness ==
    /\ DDResearching /\ Exists(startFiles.saved)
    /\ idx >= 1 /\ idx <= Len(plan) /\ DDSectionFile(plan[idx]) \notin DOMAIN sectionFiles

\* the DD research step has just returned
DDResearchReturned == app = "dd" /\ pc = "save_to_markdown"

\* C7 as stated: saved_plan.json is removed exactly when content was obtained
\* for every section of the plan; after a failed section it still exists and
\* holds the plan.
C7_RemovedExactlyWhenComplete ==
    DDResearchReturned =>
        /\ (~Exists(savedPlan) <=> Len(final_content) = Len(plan))
        /\ (failed # {} => Exists(savedPlan) /\ model_validate_json(savedPlan) = plan)

\* C7 amended: saved_plan.json is removed only when content was obtained for
\* every section, and it is removed then unless a file operation (the write
\* of a section file, the removal itself) failed. After a kickoff in which a
\* section's crew call raised the file still exists and holds the plan, the
\* next kickoff takes its plan from it, and a section is researched only when
\* it has no output file.
C7_RemovedOnlyWhenComplete ==
    /\ [](DDResearchReturned =>
            /\ (~Exists(savedPlan) => Len(final_content) = Len(plan) /\ failed = {})
            /\ (Len(final_content) = Len(plan) /\ ~ioFailed => ~Exists(savedPlan))
            /\ (failed # {} =>
                    /\ Exists(savedPlan) /\ model_validate_json(savedPlan) = plan
                    /\ Len(final_content) < Len(plan)))
    /\ [](DDResearching /\ Exists(startFiles.saved) =>
            plan = model_validate_json(startFiles.saved) /\ planCrewCalls = 0)
    /\ [][DDResearching /\ researchCalls' # researchCalls =>
            DDSectionFile(plan[idx]) \notin DOMAIN sectionFiles]_vars

\* a resumed kickoff has obtained every section, one of them from its file,
\* and has removed saved_plan.json
C7_Witness ==
    /\ DDResearchReturned /\ Exists(startFiles.saved) /\ ~Exists(savedPlan)
    /\ Len(plan) = MaxSections /\ Len(final_content) = Len(plan)
    /\ researchCalls # <<>> /\ \E i \in 1..Len(plan) : CallsOf(<<i, "section">>) = 0

\* the section loop of Foresight or DD is at a section
InSectionLoop ==
    /\ app \in {"foresight", "dd"}
    /\ pc \in {"research_sections_loop", "research_company_overview_content_loop"}
    /\ idx <= Len(plan)
SectionPath ==
    IF app = "foresight" THEN ForesightSectionFile(plan[idx], idx)
    ELSE DDSectionFile(plan[idx])

\* C8: in the section loops of DD and Foresight, a section whose file exists
\* costs no research crew call, its file is not rewritten and its content in
\* the list is the file's content; a section file is written only in the
\* step in which the research crew returned for that section, and holds what
\* the crew returned.
C8_ExistingSectionFileReused ==
    /\ [][InSectionLoop /\ SectionPath \in DOMAIN sectionFiles =>
            /\ researchCalls' = researchCalls
            /\ sectionFiles' = sectionFiles
            /\ final_content' = Append(final_content, sectionFiles[SectionPath])]_vars
    /\ [][sectionFiles' # sectionFiles =>
            /\ InSectionLoop
            /\ SectionPath \notin DOMAIN sectionFiles
            /\ <<idx, "section">> \in DOMAIN researchCalls'
            /\ researchCalls'[<<idx, "section">>] = CallsOf(<<idx, "section">>) + 1
            /\ failed' = failed /\ idx \notin failed
            /\ final_content' # final_content
            /\ sectionFiles' = WriteFile(sectionFiles, SectionPath,
                                         final_content'[Len(final_content')])]_vars

\* a loop has taken every section so far from its file, without a crew call
C8_Witness ==
    /\ InSectionLoop /\ idx > 1
    /\ researchCalls = <<>> /\ Len(final_content) = idx - 1

\* C9: no retries. Within one call the research crew is invoked at most once
\* per section (DD, Foresight) and at most once per source type per research
\* item (scan), and once an item's call has raised no further call is made
\* for that item.
C9_NoRetries ==
    /\ [](\A k \in DOMAIN researchCalls : researchCalls[k] <= 1)
    /\ [][pc # "idle" =>
            \A i \in failed : \A k \in DOMAIN researchCalls' :
                k[1] = i => k \in DOMAIN researchCalls /\ researchCalls'[k] = researchCalls[k]]_vars

\* a loop has gone on to a later item after an item's crew call raised
C9_Witness ==
    /\ pc \in {"research_sections_loop", "scan_sources_loop"}
    /\ \E i \in failed : idx > i + 1 /\ CallsOf(<<i, IF app = "scan" THEN "web" ELSE "section">>) = 1

\* C10 as stated: a scan run in which no crew call raises and the validated
\* plan yields at least one research item goes through
\* prepare_research_plan, review_research_plan, scan_sources,
\* generate_outputs and finish_success, and ends with final_output and
\* markdown_report set.
C10_RunReachesFinishSuccess ==
    (app = "scan" /\ op = "run" /\ Ended /\ ~crewRaised /\ Len(plan) >= 1) =>
        /\ trace = <<"prepare_research_plan", "review_research_plan", "scan_sources",
                     "generate_outputs", "finish_success">>
        /\ state.final_output # "None"
        /\ state.markdown_report # "None"

\* prepare_research_plan has caught an exception: it ran and stored no plan
PrepareFailed ==
    app = "scan" /\ InTrace("prepare_research_plan") /\ state.research_plan.form = "none"

\* C11 as stated: when prepare_research_plan catches an exception,
\* error_message is set and the flow aborts: no later crew (plan review,
\* research) is invoked and the run ends in finish_error right after it.
C11_PrepareErrorAborts ==
    PrepareFailed =>
        /\ state.error_message # "None"
        /\ planCrewCalls = 1
        /\ researchCalls = <<>>
        /\ ~InTrace("review_research_plan") /\ ~InTrace("scan_sources")
        /\ (Ended => trace = <<"prepare_research_plan", "finish_error">>)

\* C12 as stated: in every interleaving of handle_human_input_task with the
\* Streamlit process, a response the reviewer submitted for the posted
\* request is eventually returned by handle_human_input_task, and the
\* handler never ends up polling forever with neither a request file nor a
\* response file present.
C12_HandshakeLive ==
    /\ ((app = "hitl" /\ pc # "idle" /\ calls \in submitted)
            ~> (pc = "idle" /\ outcome = "returned" /\ ret = [type |-> "response", task |-> calls]))
    /\ ~<>[](/\ app = "hitl" /\ pc = "get_human_input_response"
             /\ ~Exists(requestFile) /\ ~Exists(responseFile))

\* each trigger of a decorator table starts at most one step
OneListenerPerTrigger(table) ==
    \A l1, l2 \in table : (l1.kind = l2.kind /\ l1.on = l2.on) => l1 = l2
IsPrefix(a, b) == Len(a) <= Len(b) /\ \A i \in DOMAIN a : a[i] = b[i]

Effective(flag, configured) ==
    IF flag.given /\ flag.value # "" THEN flag.value ELSE configured

\* C14: in main() each of --industry, --market and --time-horizon, given
\* with a non-empty value, replaces target_industry, target_market or
\* time_horizon in the initial inputs of the run; a flag that is not given
\* leaves the FLOW_VARIABLES value, and no flag touches the other two values.
C14_FlagsOverrideConfig ==
    (app = "cli" /\ op = "main") =>
        /\ ret.target_industry = Effective(arg.industry, "Coal Mining")
        /\ ret.target_market = Effective(arg.market, "Global")
        /\ ret.time_horizon = Effective(arg.time_horizon, "3-5 years")

\* main() was run with --market only and has started the flow
C14_Witness ==
    /\ app = "cli" /\ op = "main" /\ pc = "idle" /\ outcome = "returned"
    /\ arg.market = Flag("Europe") /\ ~arg.industry.given /\ ~arg.time_horizon.given
    /\ ret.target_market = "Europe" /\ ret.target_industry = "Coal Mining"

\* the Foresight section loop was entered in this call
ForesightLooped == app = "foresight" /\ op # "none" /\ InTrace("research_sections") /\ idx >= 1
\* the sections up to n whose crew call did not raise
Contributed(n) == { j \in 1..n : j \notin failed }
\* the sections up to n whose file is there
Saved(n) == { j \in 1..n : ForesightSectionFile(plan[j], j) \in DOMAIN sectionFiles }
ForesightAttempted(i) ==
    CallsOf(<<i, "section">>) = 1 \/ ForesightSectionFile(plan[i], i) \in DOMAIN sectionFiles

\* C15 as stated: the loop of research_sections goes past a failing section,
\* the list holds exactly the contents of the sections that succeeded
\* (researched and saved) or were loaded from file, and save_to_markdown
\* writes the report from that list.
C15_ContinuesPastFailures ==
    ForesightLooped =>
        /\ Len(final_content) = Cardinality(Saved(idx - 1))
        /\ (Ended => /\ \A i \in 1..Len(plan) : ForesightAttempted(i)
                     /\ reportFile = Report(final_content))

\* C15 amended: an exception at section i does not end the loop, and every
\* section of the plan is attempted. The list holds, in plan order, the
\* content of every section whose crew call did not raise: the file's content
\* for a section loaded from file, the crew's result for a researched one,
\* also when writing its file then raised. save_to_markdown runs on that list
\* and writes the report from it, unless the write of the report itself raises.
C15_ContinuesPastCrewFailures ==
    ForesightLooped =>
        /\ Len(final_content) = Cardinality(Contributed(idx - 1))
        /\ \A i \in failed : CallsOf(<<i, "section">>) = 1
        /\ \A i \in Contributed(idx - 1) :
              LET c == final_content[Cardinality(Contributed(i))]
                  section_path == ForesightSectionFile(plan[i], i)
              IN  IF CallsOf(<<i, "section">>) = 0
                  THEN section_path \in DOMAIN sectionFiles /\ c = sectionFiles[section_path]
                  ELSE /\ c \in Results
                       /\ \/ section_path \in DOMAIN sectionFiles /\ c = sectionFiles[section_path]
                          \/ ioFailed
        /\ (Ended =>
              /\ idx = Len(plan) + 1
              /\ \A i \in 1..Len(plan) : ForesightAttempted(i) \/ (ioFailed /\ i \notin failed)
              /\ InTrace("save_to_markdown")
              /\ \/ REPORT_FILE \in written /\ reportFile = Report(final_content)
                 \/ REPORT_FILE \notin written /\ ioFailed /\ outcome \in {"raised", "False"})

\* the crew raised for the first section, the second was researched and the
\* report was written from the one content
C15_Witness ==
    /\ ForesightLooped /\ Ended /\ Len(plan) = 2
    /\ failed = {1} /\ CallsOf(<<2, "section">>) = 1
    /\ Len(final_content) = 1
    /\ REPORT_FILE \in written /\ reportFile = Report(final_content)

\* what holds in a DD call once the research crew has raised for section i,
\* the report apart
DDStoppedAt(i) ==
    /\ failed = {i} /\ idx = i
    /\ pc \in {"save_to_markdown", "idle"}
    /\ \A k \in DOMAIN researchCalls : k[1] <= i
    /\ CallsOf(<<i, "section">>) = 1
    /\ Len(final_content) = i - 1
    /\ \A j \in 1..(i - 1) :
          /\ DDSectionFile(plan[j]) \in DOMAIN sectionFiles
          /\ final_content[j] = sectionFiles[DDSectionFile(plan[j])]
    /\ DDSectionFile(plan[i]) \notin DOMAIN sectionFiles
    /\ ret = ListRet \/ InTrace("save_to_markdown")

\* C16 as stated: when the research crew raises for section i of the DD
\* plan, no later section is researched, the content is that of sections
\* 1..i-1, no file is written for section i, and save_to_markdown writes the
\* partial report.
C16_StopsAtFirstFailure ==
    (app = "dd" /\ op # "none") =>
        \A i \in failed :
            /\ DDStoppedAt(i)
            /\ (Ended => reportFile = Report(final_content))

\* C16 amended: when the research crew raises for section i of the DD plan,
\* the loop ends: no later section is researched, the returned content is
\* that of sections 1..i-1 in plan order, each equal to its section file, and
\* there is no file for section i; save_to_markdown runs on that content and
\* writes the partial report, unless the write of the report itself raises.
C16_StopsAtFirstCrewFailure ==
    (app = "dd" /\ op # "none") =>
        \A i \in failed :
            /\ DDStoppedAt(i)
            /\ (Ended =>
                  /\ InTrace("save_to_markdown")
                  /\ \/ REPORT_FILE \in written /\ reportFile = Report(final_content)
                     \/ REPORT_FILE \notin written /\ ioFailed /\ outcome = "raised")

\* the crew raised for the second section and the report holds the first
C16_Witness ==
    /\ app = "dd" /\ Ended /\ failed = {2}
    /\ Len(final_content) = 1
    /\ REPORT_FILE \in written /\ reportFile = Report(final_content)

\* a scan run has ended in which no crew call raised and the review call of
\* scan_sources returned a result without 'final_forces'
ReviewWithoutFinalForces ==
    /\ app = "scan" /\ op = "run" /\ Ended /\ ~crewRaised
    /\ CallsOf(<<0, "review">>) = 1
    /\ state.final_forces # "reviewed"

\* C17 as stated: when the review result of scan_sources carries no
\* 'final_forces', final_forces is set to the synthesized forces and the flow
\* goes on to packaging (generate_outputs) instead of the error branch.
C17_ReviewFallbackProceeds ==
    ReviewWithoutFinalForces =>
        /\ state.final_forces = state.synthesized_forces
        /\ InTrace("generate_outputs")
        /\ ~InTrace("finish_error")

\* scan_sources has run on a validated plan that review_research_plan parsed
\* as a ResearchPlan and that names keywords
ScannedParsedPlan ==
    /\ app = "scan" /\ op = "run" /\ InTrace("scan_sources")
    /\ state.validated_plan.form = "model"
    /\ state.validated_plan.keywords # <<>>

\* C18 as stated: from a validated plan that parsed as a ResearchPlan with
\* keywords, scan_sources obtains a non-empty list of research items and
\* invokes the research crew for each, and does not end with "No research
\* items found in the validated plan.".
C18_ParsedPlanIsScanned ==
    ScannedParsedPlan =>
        /\ plan # <<>>
        /\ state.error_message # "No research items found in the validated plan."
        /\ (Ended => \A i \in 1..Len(plan) : CallsOf(<<i, "web">>) = 1)

\* a scan run has ended after the loop of scan_sources
ScanLoopDone ==
    app = "scan" /\ op = "run" /\ Ended /\ InTrace("scan_sources") /\ plan # <<>>
\* the findings of a list are in item order and of one source type
InItemOrder(list, source_type) ==
    /\ \A k \in DOMAIN list : list[k].source_type = source_type
    /\ \A k, l \in DOMAIN list : k < l => list[k].item < list[l].item

\* C19: in the loop of scan_sources an exception at item i neither ends the
\* loop nor sets error_message: each iteration only adds findings of its own
\* item to those collected so far and goes on to the next item, so every
\* item of the plan gets its web call; after the loop state.web_findings and
\* state.document_findings hold, in item order, the findings collected, those
\* of items before and after a failing one and those of the failing item's
\* calls that returned.
C19_ItemFailuresSurvived ==
    /\ [][(app = "scan" /\ pc = "scan_sources_loop") =>
            /\ state'.error_message = state.error_message
            /\ IsPrefix(final_content, final_content')
            /\ \A k \in (Len(final_content) + 1)..Len(final_content') :
                  final_content'[k].item = idx
            /\ (idx <= Len(plan) =>
                  /\ idx' = idx + 1 /\ pc' = pc
                  /\ <<idx, "web">> \in DOMAIN researchCalls'
                  /\ researchCalls'[<<idx, "web">>] = 1)]_vars
    /\ [](ScanLoopDone =>
            /\ idx = Len(plan) + 1
            /\ \A i \in 1..Len(plan) : CallsOf(<<i, "web">>) = 1
            /\ state.web_findings = OfType(final_content, "web")
            /\ state.document_findings = OfType(final_content, "document")
            /\ Len(state.web_findings) + Len(state.document_findings) = Len(final_content)
            /\ InItemOrder(state.web_findings, "web")
            /\ InItemOrder(state.document_findings, "document"))

\* the document call of the first item raised after its web call returned
\* findings; the second item was processed and both items' findings are kept
C19_Witness ==
    /\ ScanLoopDone /\ Len(plan) = 2 /\ failed = {1}
    /\ CallsOf(<<1, "document">>) = 1
    /\ state.web_findings = <<Finding("web", 1), Finding("web", 2)>>
    /\ state.document_findings = <<Finding("document", 2)>>
    /\ state.error_message # "Error processing validated plan"

\* scan_sources has applied from_crew_output to a validated plan
ParsedValidatedPlan ==
    app = "scan" /\ InTrace("scan_sources") /\ state.validated_plan.form # "none"

\* C20: the research items from_crew_output makes are one per extracted
\* keyword, in keyword order: as many items as keywords, item k with id
\* item_k, topic the k-th keyword and keywords the list of that one
\* keyword, the ids pairwise distinct; without extracted keywords there is
\* no item.
C20_OneItemPerKeyword ==
    ParsedValidatedPlan =>
        LET keywords == extract_keywords(state.validated_plan)
            research_items == from_crew_output(state.validated_plan)
        IN  /\ plan = research_items
            /\ Len(research_items) = Len(keywords)
            /\ \A k \in DOMAIN research_items :
                  /\ research_items[k].id = <<"item_", IntToStr(k)>>
                  /\ research_items[k].topic = keywords[k]
                  /\ research_items[k].keywords = <<keywords[k]>>
            /\ \A k, l \in DOMAIN research_items :
                  research_items[k].id = research_items[l].id => k = l
            /\ (keywords = <<>> => research_items = <<>>)

\* two keywords were extracted, the same one twice, and scan_sources holds
\* their two items
C20_Witness ==
    /\ ParsedValidatedPlan
    /\ extract_keywords(state.validated_plan) = <<"k1", "k1">>
    /\ Len(plan) = 2 /\ plan[2].id = <<"item_", "2">> /\ plan[2].topic = "k1"

\* the handler of the current request is past request_human_input
Polling == app = "hitl" /\ pc \in {"get_human_input_response", "update_flow_status_running"}

\* C21: no stale human feedback. From the moment request_human_input has
\* cleared the response file, a response file that is there was written by
\* the Streamlit script for the current request, and the response the handler
\* reads and returns carries the task of that request.
C21_NoStaleResponse ==
    /\ (Polling /\ responseFile.kind = "full" => responseFile.task = calls)
    /\ (Polling /\ responseFile.kind = "partial" => ui.pc = "save_response" /\ ui.task = calls)
    /\ (app = "hitl" /\ ret.type = "response" => ret.task = calls /\ calls \in submitted)

\* the second request was answered with its own response, the response to
\* the first request having been left in the file when it was posted
C21_Witness ==
    /\ app = "hitl" /\ calls = 2 /\ pc = "idle" /\ outcome = "returned"
    /\ ret = [type |-> "response", task |-> 2]
    /\ submitted = {1, 2}

\* C22: status ordering in handle_human_input_task. The status is "waiting"
\* for the current task from before the request file is opened until a
\* response has been read; "running" is written only in the step after a
\* response has been read, and the handler has returned only with "running"
\* written for its task.
C22_StatusOrdering ==
    /\ [](app = "hitl" /\ pc \in {"request_human_input", "request_dump", "request_clear",
                                  "get_human_input_response", "update_flow_status_running"}
            => flowStatus = status_data("waiting", calls))
    /\ [][flowStatus'.status = "running" /\ flowStatus' # flowStatus =>
            /\ pc = "update_flow_status_running"
            /\ ret.type = "response"
            /\ InTrace("get_human_input_response")]_vars
    /\ [](app = "hitl" /\ pc = "idle" /\ outcome = "returned" =>
            /\ flowStatus = status_data("running", calls)
            /\ trace = <<"update_flow_status", "request_human_input",
                         "get_human_input_response", "update_flow_status_running">>)

\* the second call of the handler has returned, "running" written for its
\* task after the "waiting" of its polling
C22_Witness ==
    /\ app = "hitl" /\ calls = 2 /\ pc = "idle" /\ outcome = "returned"
    /\ flowStatus = status_data("running", 2)
    /\ InTrace("update_flow_status_running")

\* update_plan_from_user_edits has returned True
UpdateReturnedTrue ==
    app = "foresight" /\ op = "update" /\ pc = "idle" /\ outcome = "True"

\* C23: after update_plan_from_user_edits has returned True,
\* plan_approved.json and plan_for_review.json hold the same text, the
\* serialisation of the edited plan, and get_plan_for_review returns it;
\* plan_approved.json is written by update_plan_from_user_edits only, and
\* plan_for_review.json by update_plan_from_user_edits and create_new_plan
\* only.
C23_ApprovedEqualsReview ==
    /\ [](UpdateReturnedTrue =>
            /\ Exists(planApproved) /\ CanValidate(planApproved)
            /\ planApproved = planReview
            /\ model_validate_json(planApproved) = model_validate_json(arg)
            /\ get_plan_for_review = planApproved)
    /\ [][planApproved' # planApproved =>
            op' = "update" /\ trace' = <<"update_plan_from_user_edits">>]_vars
    /\ [][planReview' # planReview =>
            \/ op' = "update" /\ trace' = <<"update_plan_from_user_edits">>
            \/ pc = "create_new_plan" /\ trace' = Append(trace, "create_new_plan")]_vars

\* an approval has returned True on a plan the crew had put up for review in
\* other words than the reviewer's
C23_Witness ==
    /\ UpdateReturnedTrue /\ calls = 2
    /\ startFiles.review # planReview /\ Exists(startFiles.review)
    /\ arg # planApproved

\* the strings _run can return when it does not return search results
TavilyMessages ==
    {"Tavily Search Error: key status", "Tavily API Key Error", "Tavily Search Error (type)"}

\* C24: the fallback of TavilySearchTool is a one-way latch. Once
\* _use_fallback is true it stays true, and a _run made while it is true
\* returns the fallback message without a call of the Tavily client; it is
\* true from construction without a key or without a client, and from the
\* first search that raised; every _run returns a string.
C24_FallbackLatch ==
    /\ [](tool.kind = "tavily" =>
            /\ (tool.api_key = "" \/ ~tool.tavily_client => tool.use_fallback)
            /\ (op = "_run" => ret.type = "str")
            /\ (op = "_run" /\ ret.value \in TavilyMessages => tool.use_fallback))
    /\ [][tool.kind = "tavily" /\ tool.use_fallback =>
            /\ tool'.use_fallback
            /\ tool'.searches = tool.searches
            /\ (calls' # calls => ret' = Str("Tavily Search Error: key status"))]_vars

\* a tool built with a key has searched once, the search raised, and two
\* more calls got the fallback message
C24_Witness ==
    /\ tool.kind = "tavily" /\ tool.api_key # "" /\ tool.tavily_client
    /\ tool.use_fallback /\ tool.searches = 1 /\ calls = 3
    /\ ret = Str("Tavily Search Error: key status")

\* a call of PDFDownloaderTool._run has returned
PdfRan == app = "pdf" /\ op = "_run"
PdfErrorMessages ==
    {"Could not download PDF", "Error downloading PDF", "Unexpected error downloading PDF"}

\* C25 as stated: _run returns a message string for every outcome; the
\* reference directory changes only if the HEAD check returned status 200
\* and the content type names a PDF or the URL ends with .pdf; and whenever
\* an error message is returned no file of the reference directory has been
\* created or modified.
C25_ErrorLeavesDirectory ==
    PdfRan =>
        /\ ret.type = "str"
        /\ ret.value \in PdfErrorMessages \cup {"Successfully downloaded PDF"}
        /\ (tool.dir # arg.dir =>
              /\ arg.head.kind = "response" /\ arg.head.status_code = 200
              /\ arg.head.content_type = "application/pdf" \/ EndsWithPdf(arg.url))
        /\ (ret.value \in PdfErrorMessages => tool.dir = arg.dir)

\* the messages of a list that have a role and a content, in their order
KeptMessages(messages) == SelectSeq(messages, LAMBDA m : m.role # "" /\ m.content # "")

\* C26: for every list of message dicts _prepare_messages returns a
\* non-empty list whose messages all have a role and a content and whose
\* last message has role "user". It begins with the valid messages of the
\* input in their input order, or with the default system message when there
\* is none, and ends with one added "Please continue analyzing." user
\* message exactly when the last of those is not from the user.
C26_PreparedMessages ==
    (app = "perplexity" /\ op = "_prepare_messages") =>
        LET out == ret.value
            kept == KeptMessages(arg)
            head == IF kept = <<>>
                    THEN <<[role |-> "system", content |-> "You are a helpful assistant."]>>
                    ELSE kept
            continue == [role |-> "user", content |-> "Please continue analyzing."]
        IN  /\ out # <<>>
            /\ \A k \in DOMAIN out : out[k].role # "" /\ out[k].content # ""
            /\ out[Len(out)].role = "user"
            /\ IsPrefix(head, out)
            /\ IF head[Len(head)].role = "user" THEN out = head
               ELSE out = Append(head, continue)

\* two valid messages around an invalid one, the last from the assistant:
\* both are kept in order and the user message is added
C26_Witness ==
    /\ app = "perplexity" /\ op = "_prepare_messages"
    /\ arg = <<[role |-> "user", content |-> "text"], [role |-> "system", content |-> ""],
               [role |-> "assistant", content |-> "text"]>>
    /\ Len(ret.value) = 3 /\ ret.value[3].content = "Please continue analyzing."

\* ---------------------------------------------------------------- C27
\* the progress values written so far in this call never go down
NonDecreasing(log) == \A i, j \in DOMAIN log : i <= j => log[i] <= log[j]
\* a Foresight call ended by an exception (False from update_plan_from_user_edits)
ForesightAborted == app = "foresight" /\ Ended /\ outcome \in {"raised", "False"}
\* what can make a Foresight step raise: a crew, a file that cannot be
\* written, an approved plan that cannot be read, an edited plan that cannot
\* be parsed
AbortCause ==
    \/ crewRaised \/ ioFailed
    \/ ~(Exists(planApproved) /\ CanValidate(planApproved))
    \/ (op = "update" /\ ~CanValidate(arg))

\* C27: within one Foresight run the progress values written to status.json
\* are non-decreasing; 'complete' with progress 100 is written only after the
\* final report file has been written; a failed write of status.json leaves
\* the file as it was and no step is aborted by it: a run that ends with an
\* exception has another cause.
C27_ProgressMonotone ==
    /\ [](app = "foresight" => NonDecreasing(statusLog))
    /\ [](app = "foresight" /\ (\E i \in DOMAIN statusLog : statusLog[i] = 100)
            => /\ REPORT_FILE \in written
               /\ reportFile = Report(final_content)
               /\ statusLog[Len(statusLog)] = 100)
    /\ [][app = "foresight" /\ statusFile' # statusFile
            => /\ statusOk'
               /\ statusLog' # <<>>
               /\ statusFile'.progress = statusLog'[Len(statusLog')]
               /\ (statusFile'.status = "complete"
                     => statusFile'.progress = 100 /\ REPORT_FILE \in written')]_vars
    /\ [](ForesightAborted => AbortCause)

\* a kickoff with an approved plan has run to its end and written 5, 30, 40,
\* 80, 90, 100 to status.json, the last after the report
C27_Witness ==
    /\ app = "foresight" /\ Ended /\ op = "kickoff" /\ outcome = "returned"
    /\ statusLog = <<5, 30, 40, 80, 90, 100>>
    /\ statusFile.status = "complete" /\ statusFile.progress = 100
    /\ REPORT_FILE \in written
====
